---- MODULE Spec2Model ----
(***************************************************************************)
(* Download orchestration and error-state engine of twitter-likejs-download *)
(* (ConcurrencyLimiter, ErrorManager, processed-set, reconciliation, the    *)
(* download run and the media-check run), modelled as state machines.       *)
(***************************************************************************)
EXTENDS Integers, Sequences, FiniteSets, TLC

(***************************************************************************)
(* Bounds of the model                                                      *)
(***************************************************************************)
\* maxConcurrency of the stand-alone limiter of SpecLimiter
MaxConcurrency == 2
\* number of run() calls made on the stand-alone limiter
MaxTasks == 5

\* the clock stops at MaxClock ticks; a calendar date lasts TicksPerDay ticks
MaxClock == 1
TicksPerDay == 1
\* addError is not called once total_errors has reached MaxErrors
MaxErrors == 4

VARIABLES
  limiter,    \* the ConcurrencyLimiter object: maxConcurrency, running, queue
  task,       \* where each run(fn) call stands: idle, waiting, released, active, resolved, rejected
  ledger,     \* ErrorManager.errors: [errors, statistics] held in memory
  batchMode,  \* ErrorManager.batchMode
  errorFile,  \* the durable document error-tweets.json
  now,        \* the wall clock read by new Date()
  processed,      \* the processed-set held in memory by the running script
  processedFile,  \* the durable document processed-tweets.json
  downloads,      \* the archive root: directory name -> (file name -> content)
  pc,             \* which script is running: idle, download, reconcile
  dl,             \* the download run: its worklist, position and what it has observed
  allDownloadIds, \* reconciliation: the directory listing taken when the script loads
  notFound,       \* reconciliation: ids reported as not found
  newlyAdded,     \* reconciliation: ids reported as newly added
  mc,             \* the media-check run: its worklist, chunk position and results
  pass,           \* the processTweetDir calls of the current chunk
  probe,          \* an addError call under watch: the ledger before it, and the ledger
                  \* that receives only the calls made since on other ids; or the
                  \* statistics a clearAllErrors call found
  calc            \* one call of a function of the program: its arguments and its result

limVars == <<limiter, task>>
ledgerVars == <<ledger, batchMode, errorFile, probe, calc>>
archVars == <<processed, processedFile, downloads, pc, dl, allDownloadIds, notFound, newlyAdded>>
mediaVars == <<mc, pass>>
vars == <<probe, calc, limiter, task, ledger, batchMode, errorFile, now,
          processed, processedFile, downloads, pc, dl, allDownloadIds, notFound, newlyAdded,
          mc, pass>>

\* the tweet ids (work items) known to the model
TweetIds == {"1001", "1002"}

(***************************************************************************)
(* JavaScript objects used as maps: functions on the set of their keys      *)
(***************************************************************************)
Has(f, k) == k \in DOMAIN f
Put(f, k, v) == [x \in DOMAIN f \cup {k} |-> IF x = k THEN v ELSE f[x]]
Del(f, k) == [x \in DOMAIN f \ {k} |-> f[x]]
EmptyMap == <<>>

(***************************************************************************)
(* ErrorManager (src/download-tweets.js 385-614, the error-manager module)  *)
(***************************************************************************)
ERROR_TYPES ==
  {"download_failed", "json_parse_error", "media_404", "media_403",
   "media_download_failed", "rate_limit", "auth_error", "network_error",
   "unknown_error", "not_found"}

EmptyLedger ==
  [errors |-> EmptyMap,
   statistics |-> [total_errors |-> 0, by_type |-> EmptyMap, by_date |-> EmptyMap]]

\* a durable JSON document: missing, unreadable, or holding a content
FileMissing == [status |-> "missing"]
FileCorrupt == [status |-> "corrupt"]
FileOf(content) == [status |-> "ok", content |-> content]

\* loadErrors(): the parsed document when the file exists and can be read,
\* otherwise the empty ledger
loadErrors(file) ==
  IF file.status = "ok" THEN file.content ELSE EmptyLedger

\* timestamp.split('T')[0]: the calendar date of a timestamp
DateOf(timestamp) == timestamp \div TicksPerDay

\* addError that restarts retry_count when the kind of the record changes
addError_RestartOnKind(l, tweetId, errorType, ts) ==
  LET prev == IF Has(l.errors, tweetId) /\ l.errors[tweetId].type = errorType
                THEN l.errors[tweetId].retry_count ELSE 0
      date == DateOf(ts)
      st   == l.statistics
      bt   == IF Has(st.by_type, errorType) THEN st.by_type ELSE Put(st.by_type, errorType, 0)
      bd   == IF Has(st.by_date, date) THEN st.by_date ELSE Put(st.by_date, date, 0)
  IN [errors |-> Put(l.errors, tweetId,
                     [type |-> errorType, timestamp |-> ts, retry_count |-> prev + 1]),
      statistics |-> [total_errors |-> st.total_errors + 1,
                      by_type |-> [bt EXCEPT ![errorType] = @ + 1],
                      by_date |-> [bd EXCEPT ![date] = @ + 1]]]

\* the in-memory effect of addError(tweetId, errorType, details) at time ts
addError(l, tweetId, errorType, ts) ==
  LET prev == IF Has(l.errors, tweetId) THEN l.errors[tweetId].retry_count ELSE 0
      date == DateOf(ts)
      st   == l.statistics
      bt   == IF Has(st.by_type, errorType) THEN st.by_type ELSE Put(st.by_type, errorType, 0)
      bd   == IF Has(st.by_date, date) THEN st.by_date ELSE Put(st.by_date, date, 0)
  IN [errors |-> Put(l.errors, tweetId,
                     [type |-> errorType, timestamp |-> ts, retry_count |-> prev + 1]),
      statistics |-> [total_errors |-> st.total_errors + 1,
                      by_type |-> [bt EXCEPT ![errorType] = @ + 1],
                      by_date |-> [bd EXCEPT ![date] = @ + 1]]]

hasError(l, tweetId) == Has(l.errors, tweetId)

getError(l, tweetId) == l.errors[tweetId]

\* removeError that leaves the by_type count of the record as it is
removeError_KeepsType(l, tweetId) ==
  IF Has(l.errors, tweetId)
    THEN LET date == DateOf(l.errors[tweetId].timestamp)
             st   == l.statistics
         IN [errors |-> Del(l.errors, tweetId),
             statistics |-> [total_errors |-> st.total_errors - 1,
                             by_type |-> st.by_type,
                             by_date |-> [st.by_date EXCEPT ![date] = @ - 1]]]
    ELSE l

\* removeError that leaves the by_date count of the record as it is
removeError_KeepsDate(l, tweetId) ==
  IF Has(l.errors, tweetId)
    THEN LET errorType == l.errors[tweetId].type
             st   == l.statistics
         IN [errors |-> Del(l.errors, tweetId),
             statistics |-> [total_errors |-> st.total_errors - 1,
                             by_type |-> [st.by_type EXCEPT ![errorType] = @ - 1],
                             by_date |-> st.by_date]]
    ELSE l

\* the in-memory effect of removeError(tweetId)
removeError(l, tweetId) ==
  IF Has(l.errors, tweetId)
    THEN LET errorType == l.errors[tweetId].type
             date == DateOf(l.errors[tweetId].timestamp)
             st   == l.statistics
         IN [errors |-> Del(l.errors, tweetId),
             statistics |-> [total_errors |-> st.total_errors - 1,
                             by_type |-> [st.by_type EXCEPT ![errorType] = @ - 1],
                             by_date |-> [st.by_date EXCEPT ![date] = @ - 1]]]
    ELSE l

\* clearError that updates the statistics and keeps the record
clearError_StatsOnly(l, tweetId) == [removeError(l, tweetId) EXCEPT !.errors = l.errors]

\* clearError(tweetId) { this.removeError(tweetId) }
clearError(l, tweetId) == removeError(l, tweetId)

\* clearAllErrors that resets the counters and keeps the records
clearAllErrors_StatsOnly(l) == [l EXCEPT !.statistics = EmptyLedger.statistics]

\* clearAllErrors(): this.errors is replaced by a new empty ledger
clearAllErrors(l) == EmptyLedger

\* SavedAfter that writes in batch mode too
SavedAfter_Always(l2, wrote) == IF ~wrote THEN errorFile ELSE FileOf(l2)

\* the durable document after a mutating call that left the ledger as l2:
\* written unless batch mode is on. removeError writes only when it deleted.
SavedAfter(l2, wrote) == IF batchMode \/ ~wrote THEN errorFile ELSE FileOf(l2)


(***************************************************************************)
(* ConcurrencyLimiter (src/media-check-and-download.js 16-37)               *)
(***************************************************************************)
ConcurrencyLimiter(maxConcurrency) ==
  [maxConcurrency |-> maxConcurrency, running |-> 0, queue |-> <<>>]

\* LimiterFull with the test off by one: a run() call gets through at the ceiling
LimiterFull_Late(l) == l.running > l.maxConcurrency

\* the admission test of run(): if (this.running >= this.maxConcurrency)
LimiterFull(l) == l.running >= l.maxConcurrency

\* RunEnter that parks a call without keeping its resolve callback
RunEnter_Lost(s, t) ==
  IF LimiterFull(s.lim)
    THEN [lim  |-> s.lim,
          task |-> [s.task EXCEPT ![t] = "waiting"]]
    ELSE [lim  |-> [s.lim EXCEPT !.running = @ + 1],
          task |-> [s.task EXCEPT ![t] = "active"]]

\* run(fn) from its call to its first suspension: either it parks its resolve
\* callback in the queue (await new Promise(...)), or it counts itself in and
\* calls fn() (the task is started, await fn() suspends).
\* s is the pair [lim |-> limiter object, task |-> task states].
RunEnter(s, t) ==
  IF LimiterFull(s.lim)
    THEN [lim  |-> [s.lim EXCEPT !.queue = Append(@, t)],
          task |-> [s.task EXCEPT ![t] = "waiting"]]
    ELSE [lim  |-> [s.lim EXCEPT !.running = @ + 1],
          task |-> [s.task EXCEPT ![t] = "active"]]

\* RunResume that calls fn() without counting the call in
RunResume_Uncounted(s, t) ==
  [lim  |-> s.lim,
   task |-> [s.task EXCEPT ![t] = "active"]]

\* the continuation of a parked run() after its resolve callback was called:
\* this.running++ and fn() is called
RunResume(s, t) ==
  [lim  |-> [s.lim EXCEPT !.running = @ + 1],
   task |-> [s.task EXCEPT ![t] = "active"]]

\* RunFinally that releases a waiter only when fn() resolved
RunFinally_SkipOnReject(s, t, ok) ==
  LET done == IF ok THEN "resolved" ELSE "rejected"
      l1   == [s.lim EXCEPT !.running = @ - 1]
  IN IF ok /\ Len(l1.queue) > 0
       THEN [lim  |-> [l1 EXCEPT !.queue = Tail(@)],
             task |-> [s.task EXCEPT ![t] = done, ![Head(l1.queue)] = "released"]]
       ELSE [lim  |-> l1,
             task |-> [s.task EXCEPT ![t] = done]]

\* the finally block of run(), entered when fn() settles (ok: resolved or
\* rejected): this.running--, and the oldest parked resolve callback, if any,
\* is shifted off the queue and called.
RunFinally(s, t, ok) ==
  LET done == IF ok THEN "resolved" ELSE "rejected"
      l1   == [s.lim EXCEPT !.running = @ - 1]
  IN IF Len(l1.queue) > 0
       THEN [lim  |-> [l1 EXCEPT !.queue = Tail(@)],
             task |-> [s.task EXCEPT ![t] = done, ![Head(l1.queue)] = "released"]]
       ELSE [lim  |-> l1,
             task |-> [s.task EXCEPT ![t] = done]]

LimState == [lim |-> limiter, task |-> task]

\* tasks whose fn() has been called and has not settled
Active == {t \in DOMAIN task : task[t] = "active"}

(***************************************************************************)
(* determineErrorType (src/download-tweets.js 581-608)                      *)
(* A message is modelled by the set of the probed substrings it contains.   *)
(***************************************************************************)
Includes(fullMessage, pattern) == pattern \in fullMessage

\* errorMessage + ' ' + output
Concat(errorMessage, output) == errorMessage \cup output

\* determineErrorType that tests the rate-limit patterns first
determineErrorType_RateFirst(errorMessage, output) ==
  LET fullMessage == Concat(errorMessage, output)
  IN IF Includes(fullMessage, "429") \/ Includes(fullMessage, "Too Many Requests")
        \/ Includes(fullMessage, "Rate limit")
       THEN "rate_limit"
     ELSE IF Includes(fullMessage, "404") \/ Includes(fullMessage, "Not Found")
       THEN "media_404"
     ELSE IF Includes(fullMessage, "403") \/ Includes(fullMessage, "Forbidden")
       THEN "media_403"
     ELSE IF Includes(fullMessage, "Authentication failed") \/ Includes(fullMessage, "Unauthorized")
             \/ Includes(fullMessage, "Login failed")
       THEN "auth_error"
     ELSE IF Includes(fullMessage, "ENOTFOUND") \/ Includes(fullMessage, "ECONNREFUSED")
             \/ Includes(fullMessage, "ETIMEDOUT")
       THEN "network_error"
     ELSE IF Includes(fullMessage, "JSON") \/ Includes(fullMessage, "parse")
       THEN "json_parse_error"
     ELSE IF Includes(fullMessage, "download") \/ Includes(fullMessage, "Failed to get")
       THEN "media_download_failed"
     ELSE "unknown_error"

determineErrorType(errorMessage, output) ==
  LET fullMessage == Concat(errorMessage, output)
  IN IF Includes(fullMessage, "404") \/ Includes(fullMessage, "Not Found")
       THEN "media_404"
     ELSE IF Includes(fullMessage, "403") \/ Includes(fullMessage, "Forbidden")
       THEN "media_403"
     ELSE IF Includes(fullMessage, "429") \/ Includes(fullMessage, "Too Many Requests")
             \/ Includes(fullMessage, "Rate limit")
       THEN "rate_limit"
     ELSE IF Includes(fullMessage, "Authentication failed") \/ Includes(fullMessage, "Unauthorized")
             \/ Includes(fullMessage, "Login failed")
       THEN "auth_error"
     ELSE IF Includes(fullMessage, "ENOTFOUND") \/ Includes(fullMessage, "ECONNREFUSED")
             \/ Includes(fullMessage, "ETIMEDOUT")
       THEN "network_error"
     ELSE IF Includes(fullMessage, "JSON") \/ Includes(fullMessage, "parse")
       THEN "json_parse_error"
     ELSE IF Includes(fullMessage, "download") \/ Includes(fullMessage, "Failed to get")
       THEN "media_download_failed"
     ELSE "unknown_error"

(***************************************************************************)
(* The archive root and the processed-set                                   *)
(***************************************************************************)
\* the order in which ids are enumerated (Object.keys, readdirSync)
IdOrder == <<"1001", "1002", "1003">>

\* tweetId + '.json'
IdJsonName(tweetId) ==
  CASE tweetId = "1001" -> "1001.json"
    [] tweetId = "1002" -> "1002.json"
    [] tweetId = "1003" -> "1003.json"

KeysOf(map) == SelectSeq(IdOrder, LAMBDA x : Has(map, x))

EmptyProcessed == [successful |-> EmptyMap, failed |-> EmptyMap, noMedia |-> EmptyMap]

\* loadProcessedTweets(), and the guarded load of the reconciliation script
loadProcessedTweets(file) ==
  IF file.status = "ok" THEN file.content ELSE EmptyProcessed

\* saveProcessedTweets that writes the successful bucket only
saveProcessedTweets_SuccessfulOnly(p) ==
  FileOf([EmptyProcessed EXCEPT !.successful = p.successful])

\* saveProcessedTweets(processed): the document is rewritten whole
saveProcessedTweets(p) == FileOf(p)

\* existsTweetJson(tweetId)
existsTweetJson(dirs, tweetId) ==
  /\ Has(dirs, tweetId)
  /\ \/ Has(dirs[tweetId], "tweet-data.json")
     \/ Has(dirs[tweetId], IdJsonName(tweetId))

\* getDownloadIds(): the directories of the archive root
getDownloadIds(dirs) == KeysOf(dirs)

\* WriteFile that writes nothing
WriteFile_Nothing(dirs, tweetId, name, content) == dirs

\* fs.ensureDir + fs.writeJSON(path.join(dir, name), content)
WriteFile(dirs, tweetId, name, content) ==
  Put(dirs, tweetId, Put(IF Has(dirs, tweetId) THEN dirs[tweetId] ELSE EmptyMap, name, content))

\* RemoveDir that leaves the directory in place
RemoveDir_Keep(dirs, tweetId) == dirs

\* fs.removeSync(tweetDir)
RemoveDir(dirs, tweetId) == Del(dirs, tweetId)

\* an id is in a bucket: processed.bucket[tweetId] is a (truthy) timestamp
InBucket(bucket, tweetId) == Has(bucket, tweetId)

\* a URL: whether new URL(url) parses it, and the segments of its pathname
Url(pathname) == [valid |-> TRUE, pathname |-> pathname]
BadUrl == [valid |-> FALSE, pathname |-> <<"bad">>]
\* a field that is not set (undefined)
NoUrl == [valid |-> FALSE, pathname |-> <<>>]
Truthy(url) == url # NoUrl
Null == "null"

\* getFilenameFromUrl(url): path.basename of the pathname, null when the URL does not parse
getFilenameFromUrl(url) ==
  IF url.valid THEN url.pathname[Len(url.pathname)] ELSE Null

\* media entries; a variant whose bitrate is not set has bitrate -1
Photo(image) ==
  [type |-> "photo", image |-> image, videosIsArray |-> FALSE, videos |-> <<>>, cover |-> NoUrl]
Video(videos, cover) ==
  [type |-> "video", image |-> NoUrl, videosIsArray |-> TRUE, videos |-> videos, cover |-> cover]
\* an entry of a type the run does not handle
Other(type) ==
  [type |-> type, image |-> NoUrl, videosIsArray |-> FALSE, videos |-> <<>>, cover |-> NoUrl]
Variant(bitrate, url) == [bitrate |-> bitrate, url |-> url]

\* metadata documents: whether the file parses, whether data.media is an array, its entries
Doc(media) == [parses |-> TRUE, isArray |-> TRUE, media |-> media]
DocNoMedia == [parses |-> TRUE, isArray |-> FALSE, media |-> <<>>]
DocCorrupt == [parses |-> FALSE, isArray |-> FALSE, media |-> <<>>]
DocPhoto == Doc(<<Photo(Url(<<"media", "p1.jpg">>))>>)
DocOdd ==
  Doc(<<Photo(BadUrl), Video(<<>>, BadUrl), Video(<<Variant(-1, BadUrl)>>, Url(<<"thumb", "c1.jpg">>)),
        Other("animated_gif")>>)
DocHeavy ==
  Doc(<<Photo(Url(<<"media", "p1.jpg">>)),
        Video(<<Variant(480, Url(<<"vid", "480", "v1.mp4">>)),
                Variant(1080, Url(<<"vid", "1080", "v2.mp4">>)),
                Variant(720, Url(<<"vid", "720", "v3.mp4">>))>>,
              Url(<<"thumb", "c1.jpg">>))>>)

IsArray(doc) == doc.isArray

(***************************************************************************)
(* The download run (src/download-tweets.js 122-206, 253-378)               *)
(***************************************************************************)
\* CONFIG.maxRateLimitRetries
maxRateLimitRetries == 3

\* what TwitterDL(tweetUrl) can do: resolve with status success and a document,
\* resolve with another status and a message, or throw
MsgGuestToken == {"Failed to get Guest Token", "Failed to get"}
MsgAuth == {"Authentication failed"}
MsgTooMany == {"429", "Too Many Requests"}
MsgUnknown == {}
MsgTimeout == {"ETIMEDOUT"}

FetchOutcomes ==
  [kind : {"success"}, doc : {DocNoMedia, DocPhoto}]
  \cup [kind : {"failure"}, message : {MsgGuestToken, MsgAuth}]
  \cup [kind : {"throw"}, message : {MsgTimeout}]

Result(success, noMedia, rateLimit, authError, retryCount) ==
  [success |-> success, noMedia |-> noMedia, rateLimit |-> rateLimit,
   authError |-> authError, retryCount |-> retryCount]

\* whether downloadTweet answers a failed fetch with rateLimit: true
\* (the record is then not written to the ledger)
AsksForRetry(message, retryCount) ==
  Includes(message, "Failed to get Guest Token") /\ retryCount < maxRateLimitRetries

\* whether downloadTweet answers a failed fetch with authError: true
\* (every return statement of downloadTweet sets authError: false)
ReportsAuthError(message) == FALSE

\* downloadTweet(tweetId, retryCount) once TwitterDL has answered with outcome:
\* the result it returns, and the ledger and the archive root it leaves
downloadTweet(l, dirs, tweetId, retryCount, outcome, ts) ==
  IF outcome.kind = "failure"
    THEN IF AsksForRetry(outcome.message, retryCount)
           THEN [result |-> Result(FALSE, FALSE, TRUE, FALSE, retryCount + 1),
                 ledger |-> l, downloads |-> dirs]
           ELSE [result |-> Result(FALSE, FALSE, FALSE, ReportsAuthError(outcome.message), 0),
                 ledger |-> addError(l, tweetId,
                                     determineErrorType(outcome.message, outcome.message), ts),
                 downloads |-> dirs]
  ELSE IF outcome.kind = "success"
    THEN LET hasMedia == IsArray(outcome.doc) /\ Len(outcome.doc.media) > 0
         IN [result |-> Result(hasMedia, ~hasMedia, FALSE, FALSE, 0),
             ledger |-> removeError(l, tweetId),
             downloads |-> WriteFile(dirs, tweetId, "tweet-data.json", outcome.doc)]
  ELSE [result |-> Result(FALSE, FALSE, FALSE, FALSE, 0),
        ledger |-> addError(l, tweetId, determineErrorType(outcome.message, {}), ts),
        downloads |-> dirs]

\* the filter of main() testing successful only
Unprocessed_SuccessfulOnly(allTweetIds, p, l) ==
  SelectSeq(allTweetIds, LAMBDA tweetId :
    /\ ~InBucket(p.successful, tweetId)
    /\ ~hasError(l, tweetId))

\* the filter of main() without its errorIdSet test
Unprocessed_IgnoresLedger(allTweetIds, p, l) ==
  SelectSeq(allTweetIds, LAMBDA tweetId :
    ~(InBucket(p.successful, tweetId) \/ InBucket(p.failed, tweetId)
      \/ InBucket(p.noMedia, tweetId)))

\* the filter of main(): ids in no bucket and with no ledger record, in worklist order
Unprocessed(allTweetIds, p, l) ==
  SelectSeq(allTweetIds, LAMBDA tweetId :
    /\ ~(InBucket(p.successful, tweetId) \/ InBucket(p.failed, tweetId)
         \/ InBucket(p.noMedia, tweetId))
    /\ ~hasError(l, tweetId))

\* BucketOf that ends the run on every permanent failure
BucketOf_HaltsOnFailure(result) ==
  IF result.success THEN "successful"
  ELSE IF result.noMedia THEN "noMedia"
  ELSE IF result.rateLimit THEN "wait"
  ELSE "halt"

\* main(): the bucket a first result puts the id in ("wait" for rateLimit)
BucketOf(result) ==
  IF result.success THEN "successful"
  ELSE IF result.noMedia THEN "noMedia"
  ELSE IF result.authError THEN "halt"
  ELSE IF result.rateLimit THEN "wait"
  ELSE "failed"

\* main(): the bucket the result of the re-attempt puts the id in
RetryBucketOf(retryResult) ==
  IF retryResult.success THEN "successful"
  ELSE IF retryResult.noMedia THEN "noMedia"
  ELSE "failed"

\* Mark that leaves the processed-set as it is
Mark_Nothing(p, bucket, tweetId, ts) == p

\* processed.<bucket>[tweetId] = new Date().toISOString()
Mark(p, bucket, tweetId, ts) == [p EXCEPT ![bucket] = Put(@, tweetId, ts)]

(***************************************************************************)
(* Reconciliation (src/unnamed/part_001)                                    *)
(***************************************************************************)
\* validateSuccessfulTweets(tweetIds) from position i on; st carries processed,
\* downloads, ledger and the not-found list
RECURSIVE validateSuccessfulTweets(_, _, _, _)
validateSuccessfulTweets(tweetIds, i, st, ts) ==
  IF i > Len(tweetIds) THEN st
  ELSE LET tweetId == tweetIds[i]
           st2 == IF ~existsTweetJson(st.downloads, tweetId)
                    THEN [processed |-> [st.processed EXCEPT !.successful = Del(@, tweetId)],
                          downloads |-> RemoveDir(st.downloads, tweetId),
                          ledger    |-> addError(st.ledger, tweetId, "not_found", ts),
                          found     |-> Append(st.found, tweetId)]
                    ELSE [st EXCEPT !.ledger = IF hasError(@, tweetId)
                                                 THEN clearError(@, tweetId) ELSE @]
       IN validateSuccessfulTweets(tweetIds, i + 1, st2, ts)

\* IsNew without the membership test: every directory with a document is new
IsNew_Any(p, dirs, tweetId) == existsTweetJson(dirs, tweetId)

\* IsNew that finds no directory new
IsNew_Never(p, dirs, tweetId) == FALSE

\* the test of validateNewTweets: existsTweetJson(tweetId) && !successful[tweetId]
IsNew(p, dirs, tweetId) ==
  existsTweetJson(dirs, tweetId) /\ ~InBucket(p.successful, tweetId)

\* validateNewTweets(tweetIds) from position i on; st.found is the newly-added list
RECURSIVE validateNewTweets(_, _, _, _)
validateNewTweets(tweetIds, i, st, ts) ==
  IF i > Len(tweetIds) THEN st
  ELSE LET tweetId == tweetIds[i]
           st2 == IF IsNew(st.processed, st.downloads, tweetId)
                    THEN [st EXCEPT !.processed = Mark(@, "successful", tweetId, ts),
                                    !.found = Append(@, tweetId),
                                    !.ledger = IF hasError(@, tweetId)
                                                 THEN clearError(@, tweetId) ELSE @]
                    ELSE st
       IN validateNewTweets(tweetIds, i + 1, st2, ts)

\* the reconciliation script from its load to its save, run at time ts on the
\* documents pf (processed-set) and ef (ledger) and the archive root dirs
Reconcile(pf, ef, dirs, ts) ==
  LET p0 == loadProcessedTweets(pf)
      s1 == validateSuccessfulTweets(KeysOf(p0.successful), 1,
              [processed |-> p0, downloads |-> dirs, ledger |-> loadErrors(ef),
               found |-> <<>>], ts)
      s2 == validateNewTweets(getDownloadIds(dirs), 1, [s1 EXCEPT !.found = <<>>], ts)
  IN [processed |-> s2.processed, ledger |-> s2.ledger, downloads |-> s2.downloads,
      notFound |-> s1.found, newlyAdded |-> s2.found]

(***************************************************************************)
(* The media-check run (src/media-check-and-download.js)                    *)
(***************************************************************************)
\* the limiter's ceiling and the chunk size of processBatch, scaled down
\* (5 and 100 in the source)
MAX_CONCURRENT_DOWNLOADS == 2
BATCH_SIZE == 2

\* CanRetry with the test off by one: a third failure is retried
CanRetry_Late(retryCount) == retryCount <= 3

\* (b.bitrate || 0)
BitrateOr0(v) == IF v.bitrate < 0 THEN 0 ELSE v.bitrate

\* InsertDesc that puts a variant before the variants of equal bitrate
InsertDesc_TiesLast(v, sorted) ==
  LET k == Cardinality({i \in 1..Len(sorted) : BitrateOr0(sorted[i]) > BitrateOr0(v)})
  IN SubSeq(sorted, 1, k) \o <<v>> \o SubSeq(sorted, k + 1, Len(sorted))

\* media.videos.slice().sort((a, b) => (b.bitrate || 0) - (a.bitrate || 0)):
\* a stable sort by descending bitrate
InsertDesc(v, sorted) ==
  LET k == Cardinality({i \in 1..Len(sorted) : BitrateOr0(sorted[i]) >= BitrateOr0(v)})
  IN SubSeq(sorted, 1, k) \o <<v>> \o SubSeq(sorted, k + 1, Len(sorted))

RECURSIVE SortDesc(_)
SortDesc(videos) ==
  IF videos = <<>> THEN <<>>
  ELSE InsertDesc(videos[Len(videos)], SortDesc(SubSeq(videos, 1, Len(videos) - 1)))

\* the retry test of processTweetDir: if (retryCount < 3)
CanRetry(retryCount) == retryCount < 3

NoResult == [status |-> "none", reason |-> "none", retryCount |-> 0,
             downloads |-> 0, errors |-> 0, successes |-> 0, skips |-> 0]

\* a processTweetDir call: its counters, the files it has submitted to the limiter
NewPass == [state |-> "running", result |-> NoResult, downloadCount |-> 0,
            errorCount |-> 0, successCount |-> 0, skipCount |-> 0, tasks |-> {}]

\* return { tweetId, status, reason, ... } before any await
Return(S, tweetId, status, reason, retryCount) ==
  [S EXCEPT !.pass[tweetId].state = "returned",
            !.pass[tweetId].result = [NoResult EXCEPT !.status = status, !.reason = reason,
                                                      !.retryCount = retryCount]]

\* return { tweetId, status: 'completed', downloads, errors, successes, skips }
Completed(P) ==
  [P EXCEPT !.state = "returned",
            !.result = [NoResult EXCEPT !.status = "completed",
                                        !.downloads = P.downloadCount, !.errors = P.errorCount,
                                        !.successes = P.successCount, !.skips = P.skipCount]]

\* skipCount++
Skip(S, tweetId) == [S EXCEPT !.pass[tweetId].skipCount = @ + 1]

\* downloadFile starts: fs.createWriteStream(dest) creates the destination
StartTransfer(dirs, t) == WriteFile(dirs, t[1], t[2], "partial")

\* downloadTasks.push(limiter.run(() => downloadFile(url, filePath)).then(..).catch(..))
Submit(S, tweetId, filename) ==
  LET t == <<tweetId, filename>>
      e == RunEnter([lim |-> S.lim, task |-> Put(S.task, t, "idle")], t)
  IN [S EXCEPT !.lim = e.lim,
               !.task = e.task,
               !.downloads = IF e.task[t] = "active" THEN StartTransfer(@, t) ELSE @,
               !.pass[tweetId].tasks = @ \cup {filename}]

\* Offer that does not look for the file
Offer_Always(S, tweetId, url) ==
  LET filename == getFilenameFromUrl(url)
  IN IF filename = Null THEN Skip(S, tweetId)
     ELSE Submit(S, tweetId, filename)

\* one destination of a media entry: no file name or file already there: skip;
\* otherwise the transfer goes to the limiter
Offer(S, tweetId, url) ==
  LET filename == getFilenameFromUrl(url)
  IN IF filename = Null THEN Skip(S, tweetId)
     ELSE IF Has(S.downloads[tweetId], filename) THEN Skip(S, tweetId)
     ELSE Submit(S, tweetId, filename)

\* the body of the loop over data.media for one entry
Entry(S, tweetId, media) ==
  IF media.type = "photo" /\ Truthy(media.image)
    THEN Offer(S, tweetId, media.image)
  ELSE IF media.type = "video" /\ media.videosIsArray
    THEN LET sorted == SortDesc(media.videos)
             S1 == IF Len(sorted) > 0 THEN Offer(S, tweetId, sorted[1].url)
                   ELSE Skip(S, tweetId)
             continue == Len(sorted) > 0 /\ getFilenameFromUrl(sorted[1].url) = Null
         IN IF continue THEN S1
            ELSE IF Truthy(media.cover) THEN Offer(S1, tweetId, media.cover)
            ELSE S1
  ELSE Skip(S, tweetId)

RECURSIVE Entries(_, _, _, _)
Entries(S, tweetId, media, k) ==
  IF k > Len(media) THEN S
  ELSE Entries(Entry(S, tweetId, media[k]), tweetId, media, k + 1)

\* processTweetDir that looks for <id>.json before tweet-data.json
processTweetDir_IdFirst(S, tweetId, ts) ==
  LET S0 == [S EXCEPT !.pass = Put(@, tweetId, NewPass)]
      retryCount == IF hasError(S.ledger, tweetId)
                      THEN getError(S.ledger, tweetId).retry_count ELSE 0
      dir == S.downloads[tweetId]
      jsonPath == IF Has(dir, IdJsonName(tweetId)) THEN IdJsonName(tweetId)
                  ELSE IF Has(dir, "tweet-data.json") THEN "tweet-data.json"
                  ELSE Null
  IN IF hasError(S.ledger, tweetId) /\ ~CanRetry(retryCount)
       THEN Return(S0, tweetId, "skipped", "max_retry_exceeded", retryCount)
     ELSE IF jsonPath = Null
       THEN Return([S0 EXCEPT !.ledger = addError(@, tweetId, "json_parse_error", ts)],
                   tweetId, "error", "json_not_found", 0)
     ELSE IF ~dir[jsonPath].parses
       THEN Return([S0 EXCEPT !.ledger = addError(@, tweetId, "json_parse_error", ts)],
                   tweetId, "error", "json_parse_error", 0)
     ELSE IF ~IsArray(dir[jsonPath])
       THEN Return(S0, tweetId, "skipped", "no_media", 0)
     ELSE LET S1 == Entries(S0, tweetId, dir[jsonPath].media, 1)
          IN IF S1.pass[tweetId].tasks = {}
               THEN [S1 EXCEPT !.pass[tweetId] = Completed(@)]
               ELSE [S1 EXCEPT !.pass[tweetId].state = "awaiting"]

\* processTweetDir(tweetId) from its call to its first await or its return.
\* S carries the limiter, its tasks, the ledger, the archive root and the passes.
processTweetDir(S, tweetId, ts) ==
  LET S0 == [S EXCEPT !.pass = Put(@, tweetId, NewPass)]
      retryCount == IF hasError(S.ledger, tweetId)
                      THEN getError(S.ledger, tweetId).retry_count ELSE 0
      dir == S.downloads[tweetId]
      jsonPath == IF Has(dir, "tweet-data.json") THEN "tweet-data.json"
                  ELSE IF Has(dir, IdJsonName(tweetId)) THEN IdJsonName(tweetId)
                  ELSE Null
  IN IF hasError(S.ledger, tweetId) /\ ~CanRetry(retryCount)
       THEN Return(S0, tweetId, "skipped", "max_retry_exceeded", retryCount)
     ELSE IF jsonPath = Null
       THEN Return([S0 EXCEPT !.ledger = addError(@, tweetId, "json_parse_error", ts)],
                   tweetId, "error", "json_not_found", 0)
     ELSE IF ~dir[jsonPath].parses
       THEN Return([S0 EXCEPT !.ledger = addError(@, tweetId, "json_parse_error", ts)],
                   tweetId, "error", "json_parse_error", 0)
     ELSE IF ~IsArray(dir[jsonPath])
       THEN Return(S0, tweetId, "skipped", "no_media", 0)
     ELSE LET S1 == Entries(S0, tweetId, dir[jsonPath].media, 1)
          IN IF S1.pass[tweetId].tasks = {}
               THEN [S1 EXCEPT !.pass[tweetId] = Completed(@)]
               ELSE [S1 EXCEPT !.pass[tweetId].state = "awaiting"]

\* the file names a media entry is to be stored under
EntryDests(media) ==
  LET names(urls) == {getFilenameFromUrl(u) : u \in urls} \ {Null}
      sorted == SortDesc(media.videos)
  IN IF media.type = "photo" /\ Truthy(media.image) THEN names({media.image})
     ELSE IF media.type = "video" /\ media.videosIsArray
       THEN names((IF Len(sorted) > 0 THEN {sorted[1].url} ELSE {})
                  \cup (IF Truthy(media.cover) THEN {media.cover} ELSE {}))
     ELSE {}

\* the metadata document processTweetDir reads in a directory, if one is there
HasJson(dir, tweetId) == Has(dir, "tweet-data.json") \/ Has(dir, IdJsonName(tweetId))
JsonOf(dir, tweetId) ==
  IF Has(dir, "tweet-data.json") THEN dir["tweet-data.json"] ELSE dir[IdJsonName(tweetId)]

\* the directory holds a document that parses and lists media
ListsMedia(dir, tweetId) ==
  /\ HasJson(dir, tweetId)
  /\ JsonOf(dir, tweetId).parses
  /\ IsArray(JsonOf(dir, tweetId))

\* the destination file names of an item
Destinations(dir, tweetId) ==
  IF ListsMedia(dir, tweetId)
    THEN UNION {EntryDests(JsonOf(dir, tweetId).media[k]) :
                  k \in 1..Len(JsonOf(dir, tweetId).media)}
    ELSE {}

\* what a processTweetDir call did before its first await, next to what the
\* same call does when the ledger has no record of the id
Observe(S, tweetId, ts) ==
  LET A == processTweetDir(S, tweetId, ts)
      F == processTweetDir([S EXCEPT !.ledger = removeError(@, tweetId)], tweetId, ts)
  IN [retryCount |-> IF hasError(S.ledger, tweetId)
                       THEN getError(S.ledger, tweetId).retry_count ELSE 0,
      hadRecord |-> hasError(S.ledger, tweetId),
      ledgerKept |-> A.ledger = S.ledger,
      limiterKept |-> A.lim = S.lim /\ DOMAIN A.task = DOMAIN S.task,
      dirKept |-> A.downloads = S.downloads,
      listsMedia |-> ListsMedia(S.downloads[tweetId], tweetId),
      dests |-> Destinations(S.downloads[tweetId], tweetId),
      present |-> DOMAIN S.downloads[tweetId],
      hasJson |-> HasJson(S.downloads[tweetId], tweetId),
      bothJson |-> /\ Has(S.downloads[tweetId], "tweet-data.json")
                   /\ Has(S.downloads[tweetId], IdJsonName(tweetId)),
      unparsable |-> /\ HasJson(S.downloads[tweetId], tweetId)
                     /\ ~JsonOf(S.downloads[tweetId], tweetId).parses,
      recordedAfter |-> IF hasError(A.ledger, tweetId)
                          THEN getError(A.ledger, tweetId).retry_count ELSE 0,
      kindAfter |-> IF hasError(A.ledger, tweetId)
                      THEN getError(A.ledger, tweetId).type ELSE "none",
      asGenericOnly |-> LET G == processTweetDir(
                                   [S EXCEPT !.downloads[tweetId] = Del(@, IdJsonName(tweetId))],
                                   tweetId, ts)
                        IN /\ A.pass[tweetId] = G.pass[tweetId]
                           /\ A.task = G.task
                           /\ A.ledger = G.ledger,
      asFresh |-> /\ A.pass[tweetId] = F.pass[tweetId]
                  /\ A.lim = F.lim
                  /\ A.task = F.task
                  /\ A.downloads = F.downloads]

\* batch.map(processor): processTweetDir is called for each item of the chunk in turn
RECURSIVE MapChunk(_, _, _, _)
MapChunk(S, batch, k, ts) ==
  IF k > Len(batch) THEN S
  ELSE LET called == {[processTweetDir(S, batch[k], ts) EXCEPT
                         !.obs = Put(@, batch[k], Observe(S, batch[k], ts))]}
       IN CHOOSE R \in {MapChunk(next, batch, k + 1, ts) : next \in called} : TRUE

\* items.slice(i, i + batchSize), positions counted from 1
Slice(items, i, batchSize) ==
  SubSeq(items, i, IF i + batchSize - 1 < Len(items) THEN i + batchSize - 1 ELSE Len(items))

\* what downloadFile can end with: success, or an error with a message
Msg404 == {"Failed to get", "404"}
TransferOutcomes ==
  {[ok |-> TRUE, message |-> {}], [ok |-> FALSE, message |-> Msg404]}

\* the .then handler of a transfer of tweetId
OnSuccess(S, t) ==
  [S EXCEPT !.pass[t[1]].downloadCount = @ + 1,
            !.pass[t[1]].successCount = @ + 1,
            !.ledger = removeError(@, t[1]),
            !.downloads = WriteFile(@, t[1], t[2], "complete")]

\* OnFailure that leaves the destination file where it is
OnFailure_KeepsFile(S, t, message, ts) ==
  [S EXCEPT !.pass[t[1]].errorCount = @ + 1,
            !.ledger = addError(@, t[1], determineErrorType(message, {}), ts)]

\* the .catch handler of a transfer of tweetId: the error is recorded and the
\* destination file, if there, is removed
OnFailure(S, t, message, ts) ==
  [S EXCEPT !.pass[t[1]].errorCount = @ + 1,
            !.ledger = addError(@, t[1], determineErrorType(message, {}), ts),
            !.downloads = [@ EXCEPT ![t[1]] = Del(@, t[2])]]

\* what the download run last put in a bucket, as observed when it did so:
\* the id, the bucket, the number of fetches made for the item, whether the
\* last fetch failed with the guest-token (rate-limit-like) failure, and
\* whether the ledger then held a record for the id
NoMark == [id |-> "none", bucket |-> "none", attempts |-> 0, transient |-> FALSE,
           recorded |-> FALSE]

\* the download run before it starts: phase, filtered worklist tweetIds,
\* the processed-set as loaded,
\* position i, result.retryCount of a rateLimit result, the fetches made for
\* the current item, whether a fetch of this run failed with an
\* authentication-class failure and whether a fetch was started after that,
\* and the ids of the worklist with a ledger record when the run started
DlIdle == [phase |-> "idle", tweetIds |-> <<>>, i |-> 0, retryCount |-> 0,
           attempts |-> 0, authSeen |-> FALSE, afterAuth |-> FALSE, marked |-> NoMark,
           loaded |-> EmptyProcessed, errorIds |-> {}]

\* no addError call is under watch
NoProbe ==
  [phase |-> "none", id |-> "none", before |-> EmptyLedger.statistics, shadow |-> EmptyLedger]

\* no function call is under study
NoCalc == [op |-> "none"]

\* the media-check run before it starts
McIdle == [phase |-> "idle", tweetIds |-> <<>>, i |-> 0, results |-> <<>>, obs |-> EmptyMap]

ArchiveAtRest ==
  /\ processed = EmptyProcessed
  /\ processedFile = FileMissing
  /\ downloads = EmptyMap
  /\ pc = "idle"
  /\ dl = DlIdle
  /\ allDownloadIds = <<>>
  /\ notFound = <<>>
  /\ newlyAdded = <<>>
  /\ mc = McIdle
  /\ pass = EmptyMap
  /\ probe = NoProbe

(***************************************************************************)
(* SpecLimiter: a limiter of its own, run() called by arbitrary callers     *)
(***************************************************************************)
Tasks == 1..MaxTasks

InitLimiter ==
  /\ limiter = ConcurrencyLimiter(MaxConcurrency)
  /\ task = [t \in Tasks |-> "idle"]
  /\ ledger = loadErrors(FileMissing)
  /\ batchMode = FALSE
  /\ errorFile = FileMissing
  /\ now = 0
  /\ ArchiveAtRest
  /\ calc = NoCalc

\* a caller calls limiter.run(fn) (calls are numbered in call order)
Run(t) ==
  /\ task[t] = "idle"
  /\ \A u \in Tasks : u < t => task[u] # "idle"
  /\ limiter' = RunEnter(LimState, t).lim
  /\ task' = RunEnter(LimState, t).task
  /\ UNCHANGED <<ledgerVars, now, archVars, mediaVars>>

\* the microtask that resumes a released run() call
Resume(t) ==
  /\ task[t] = "released"
  /\ limiter' = RunResume(LimState, t).lim
  /\ task' = RunResume(LimState, t).task
  /\ UNCHANGED <<ledgerVars, now, archVars, mediaVars>>

\* fn() of an active task settles and run() leaves through its finally block
Settle(t) ==
  /\ task[t] = "active"
  /\ \E ok \in BOOLEAN :
       /\ limiter' = RunFinally(LimState, t, ok).lim
       /\ task' = RunFinally(LimState, t, ok).task
  /\ UNCHANGED <<ledgerVars, now, archVars, mediaVars>>

NextLimiter ==
  \E t \in Tasks : Run(t) \/ Resume(t) \/ Settle(t)

SpecLimiter == InitLimiter /\ [][NextLimiter]_vars

\* C1: with maxConcurrency = N, the number of tasks started and not finished
\* never exceeds N, whatever the order of run() calls, resumptions and completions.
C1_NeverOverCapacity == Cardinality(Active) <= limiter.maxConcurrency

\* tasks whose fn() has been called (run() got past its admission test)
Started == {t \in Tasks : task[t] \in {"active", "resolved", "rejected"}}

\* C14: tasks start in the order they were submitted: no task has started
\* while a task submitted before it is still parked in the queue.
C14_StartInSubmissionOrder ==
  \A t \in Started : \A u \in Tasks : u < t => task[u] # "waiting"

\* the limiter when every started fn() settles and every released run()
\* call is resumed (its continuation is a queued microtask)
SpecLimiterFair ==
  /\ SpecLimiter
  /\ \A t \in Tasks : WF_vars(Settle(t)) /\ WF_vars(Resume(t))

Finished == {t \in Tasks : task[t] \in {"resolved", "rejected"}}

\* C15: when every started task finishes, every submitted task starts and
\* completes: no task stays parked for ever.
C15_EveryTaskCompletes ==
  \A t \in Tasks : (task[t] # "idle") ~> (t \in Finished)

\* more tasks than the ceiling were submitted before any finished: the ceiling
\* is reached and all the others are parked
C15_Witness ==
  /\ Cardinality(Active) = MaxConcurrency
  /\ Len(limiter.queue) = MaxTasks - MaxConcurrency
  /\ Finished = {}

\* the parked calls a step releases
Released == {u \in Tasks : task[u] = "waiting" /\ task'[u] = "released"}

\* the tasks a step completes
Completing == {t \in Tasks : task[t] = "active" /\ task'[t] \in {"resolved", "rejected"}}

\* C16: a completion, by resolve or by reject alike, releases exactly the
\* oldest parked call when one is parked and none otherwise; no other step
\* releases a parked call.
C16_OneReleasePerCompletion ==
  [][IF Completing # {}
       THEN IF limiter.queue # <<>>
              THEN /\ Released = {Head(limiter.queue)}
                   /\ \A u \in Tasks : task[u] = "waiting" => Head(limiter.queue) <= u
                   /\ limiter'.queue = Tail(limiter.queue)
              ELSE /\ Released = {}
                   /\ limiter'.queue = <<>>
       ELSE Released = {}]_vars

\* a call was released, and by a task that rejected: no task has resolved yet
C16_Witness ==
  /\ \E t \in Tasks : task[t] = "rejected"
  /\ \A t \in Tasks : task[t] # "resolved"
  /\ \E u \in Tasks : task[u] = "released"
  /\ limiter.queue # <<>>

(***************************************************************************)
(* SpecLedger: the operations of one ErrorManager, called in any order      *)
(***************************************************************************)
\* the error kinds the callers of SpecLedger pass
LedgerKinds == {"media_404", "rate_limit"}

InitLedger ==
  /\ limiter = ConcurrencyLimiter(MaxConcurrency)
  /\ task = [t \in Tasks |-> "idle"]
  /\ errorFile = FileMissing
  /\ ledger = loadErrors(errorFile)
  /\ batchMode = FALSE
  /\ now = 0
  /\ ArchiveAtRest
  /\ calc = NoCalc

Tick ==
  /\ now < MaxClock
  /\ now' = now + 1
  /\ UNCHANGED <<limVars, ledgerVars, archVars, mediaVars>>

\* the watch after addError(tweetId, errorType): the call is put under watch,
\* or it is a call on another id than the watched one, or the watch is over
WatchAfterAdd(watch, tweetId, errorType) ==
  IF watch
    THEN [phase |-> "open", id |-> tweetId, before |-> ledger.statistics, shadow |-> ledger]
  ELSE IF probe.phase = "open" /\ tweetId # probe.id
    THEN [probe EXCEPT !.shadow = addError(@, tweetId, errorType, now)]
  ELSE NoProbe

\* the watch after removeError(tweetId): removeError of the watched id closes it
WatchAfterRemove(tweetId) ==
  IF probe.phase = "open" /\ tweetId = probe.id
    THEN [probe EXCEPT !.phase = "closed"]
  ELSE IF probe.phase = "open"
    THEN [probe EXCEPT !.shadow = removeError(@, tweetId)]
  ELSE NoProbe

AddError(tweetId, errorType) ==
  /\ ledger.statistics.total_errors < MaxErrors
  /\ ledger' = addError(ledger, tweetId, errorType, now)
  /\ errorFile' = SavedAfter(ledger', TRUE)
  /\ \E watch \in BOOLEAN : probe' = WatchAfterAdd(watch, tweetId, errorType)
  /\ UNCHANGED calc
  /\ UNCHANGED <<limVars, batchMode, now, archVars, mediaVars>>

RemoveError(tweetId) ==
  /\ ledger' = removeError(ledger, tweetId)
  /\ errorFile' = SavedAfter(ledger', hasError(ledger, tweetId))
  /\ probe' = WatchAfterRemove(tweetId)
  /\ UNCHANGED calc
  /\ UNCHANGED <<limVars, batchMode, now, archVars, mediaVars>>

ClearError(tweetId) ==
  /\ ledger' = clearError(ledger, tweetId)
  /\ errorFile' = SavedAfter(ledger', hasError(ledger, tweetId))
  /\ probe' = NoProbe
  /\ UNCHANGED calc
  /\ UNCHANGED <<limVars, batchMode, now, archVars, mediaVars>>

\* the watch after clearAllErrors(): the statistics it found are kept
WatchAfterClearAll ==
  [NoProbe EXCEPT !.phase = "cleared", !.before = ledger.statistics]

ClearAllErrors ==
  /\ ledger' = clearAllErrors(ledger)
  /\ errorFile' = SavedAfter(ledger', TRUE)
  /\ probe' = WatchAfterClearAll
  /\ UNCHANGED calc
  /\ UNCHANGED <<limVars, batchMode, now, archVars, mediaVars>>

SetBatchMode(enabled) ==
  /\ batchMode' = enabled
  /\ UNCHANGED <<limVars, ledger, errorFile, now, archVars, mediaVars>>
  /\ UNCHANGED <<probe, calc>>

SaveErrors ==
  /\ errorFile' = FileOf(ledger)
  /\ UNCHANGED <<limVars, ledger, batchMode, now, archVars, mediaVars>>
  /\ UNCHANGED <<probe, calc>>

NextLedger ==
  \/ \E id \in TweetIds, k \in LedgerKinds : AddError(id, k)
  \/ \E id \in TweetIds : RemoveError(id)
  \/ \E id \in TweetIds : ClearError(id)
  \/ ClearAllErrors
  \/ Tick

SpecLedger == InitLedger /\ [][NextLedger]_vars

\* the kind the callers of SpecLedgerBatch pass
BatchKinds == {"media_404"}

\* the operations of one ErrorManager with setBatchMode and saveErrors
NextLedgerBatch ==
  \/ \E id \in TweetIds, k \in BatchKinds : AddError(id, k)
  \/ \E id \in TweetIds : RemoveError(id)
  \/ ClearAllErrors
  \/ \E enabled \in BOOLEAN : SetBatchMode(enabled)
  \/ SaveErrors

SpecLedgerBatch == InitLedger /\ [][NextLedgerBatch]_vars

\* C5: statistics.total_errors equals the number of error records the ledger
\* holds, in every state reached by addError, removeError, clearError and
\* clearAllErrors calls.
C5_TotalEqualsRecordCount ==
  ledger.statistics.total_errors = Cardinality(DOMAIN ledger.errors)

\* a count of the statistics; a key that is absent counts 0
CountOf(counts, key) == IF Has(counts, key) THEN counts[key] ELSE 0

\* two statistics objects hold the same total and the same counts
SameCounts(a, b) ==
  /\ a.total_errors = b.total_errors
  /\ \A k \in DOMAIN a.by_type \cup DOMAIN b.by_type : CountOf(a.by_type, k) = CountOf(b.by_type, k)
  /\ \A d \in DOMAIN a.by_date \cup DOMAIN b.by_date : CountOf(a.by_date, d) = CountOf(b.by_date, d)

\* C17 as stated: after addError(id) ... removeError(id) with calls on other
\* ids in between, total_errors and every by_type and by_date count equal
\* their values before the addError.
C17_BackToValuesBefore ==
  probe.phase = "closed" => SameCounts(ledger.statistics, probe.before)

\* C17, amended: after addError(id) ... removeError(id) with addError and
\* removeError calls on other ids in between, total_errors and every by_type
\* and by_date count equal what those calls on other ids alone produce from
\* the ledger before the addError: the pair contributes nothing to any count.
C17_PairContributesNothing ==
  probe.phase = "closed" => SameCounts(ledger.statistics, probe.shadow.statistics)

\* a pair is closed for an id that had a record of another kind before, after
\* a call on another id changed the statistics
C17_Witness ==
  /\ probe.phase = "closed"
  /\ hasError(probe.shadow, probe.id)
  /\ ~SameCounts(probe.shadow.statistics, probe.before)

\* C18: retry_count is 1 after addError for an id without a record and one
\* more after every addError for an id with a record, whatever the kinds; a
\* record that stays keeps or raises its retry_count.
C18_RetryCountGrowsByOne ==
  [][\A tweetId \in DOMAIN ledger'.errors :
       IF hasError(ledger, tweetId)
         THEN \/ ledger'.errors[tweetId] = ledger.errors[tweetId]
              \/ ledger'.errors[tweetId].retry_count = ledger.errors[tweetId].retry_count + 1
         ELSE ledger'.errors[tweetId].retry_count = 1]_vars

\* a record was re-recorded twice and the ledger has seen both kinds
C18_Witness ==
  \E tweetId \in DOMAIN ledger.errors :
    /\ ledger.errors[tweetId].retry_count = 3
    /\ \A k \in LedgerKinds : CountOf(ledger.statistics.by_type, k) > 0

(***************************************************************************)
(* SpecArchive: download runs and reconciliation runs, one script at a      *)
(* time, over one archive root, one processed-set document and one ledger   *)
(* document; between runs the user may remove metadata documents.           *)
(***************************************************************************)
\* the worklists (like.js) a download run is given hold at most this many ids
MaxWorklist == 2

Worklists == UNION {[1..n -> TweetIds] : n \in 1..MaxWorklist}

\* a directory left by an earlier version of the tool: <id>.json only
LegacyDir(tweetId) == Put(EmptyMap, IdJsonName(tweetId), DocPhoto)

InitArchive ==
  /\ limiter = ConcurrencyLimiter(MaxConcurrency)
  /\ task = [t \in Tasks |-> "idle"]
  /\ errorFile = FileMissing
  /\ ledger = loadErrors(errorFile)
  /\ batchMode = FALSE
  /\ now = 0
  /\ processed = EmptyProcessed
  /\ processedFile = FileMissing
  /\ \E legacy \in SUBSET TweetIds : downloads = [id \in legacy |-> LegacyDir(id)]
  /\ pc = "idle"
  /\ dl = DlIdle
  /\ allDownloadIds = <<>>
  /\ notFound = <<>>
  /\ newlyAdded = <<>>
  /\ mc = McIdle
  /\ pass = EmptyMap
  /\ probe = NoProbe
  /\ calc = NoCalc

\* the clock when a script starts: later than when the previous one started
\* (it stops at MaxClock)
LaterThan(t) == IF t < MaxClock THEN t + 1 ELSE t

\* the user removes the metadata documents of a directory between two runs
ExternalRemove(tweetId) ==
  /\ pc = "idle"
  /\ existsTweetJson(downloads, tweetId)
  /\ downloads' = [downloads EXCEPT
                     ![tweetId] = Del(Del(@, "tweet-data.json"), IdJsonName(tweetId))]
  /\ UNCHANGED <<mediaVars, limVars, ledgerVars, now, processed, processedFile, pc, dl,
                 allDownloadIds, notFound, newlyAdded>>

\* main() of the download script up to its loop: the stores are loaded and the
\* worklist is filtered
DlStart(allTweetIds) ==
  /\ pc = "idle"
  /\ pc' = "download"
  /\ ledger' = loadErrors(errorFile)
  /\ batchMode' = FALSE
  /\ processed' = loadProcessedTweets(processedFile)
  /\ dl' = [DlIdle EXCEPT !.phase = "ready",
                          !.tweetIds = Unprocessed(allTweetIds, processed', ledger'),
                          !.i = 1,
                          !.loaded = processed',
                          !.errorIds = {allTweetIds[k] : k \in
                                          {j \in 1..Len(allTweetIds) :
                                             hasError(ledger', allTweetIds[j])}}]
  /\ now' = LaterThan(now)
  /\ UNCHANGED <<mediaVars, limVars, errorFile, processedFile, downloads,
                 allDownloadIds, notFound, newlyAdded>>
  /\ UNCHANGED <<probe, calc>>

\* the loop reaches an item and calls downloadTweet(tweetId): TwitterDL is called
DlFetch ==
  /\ pc = "download"
  /\ dl.phase = "ready"
  /\ dl.i <= Len(dl.tweetIds)
  /\ dl' = [dl EXCEPT !.phase = "fetching", !.attempts = 1, !.afterAuth = @ \/ dl.authSeen,
                      !.marked = NoMark]
  /\ UNCHANGED <<mediaVars, limVars, ledgerVars, now, processed, processedFile, downloads, pc,
                 allDownloadIds, notFound, newlyAdded>>

IsAuthFailure(outcome) ==
  /\ outcome.kind # "success"
  /\ determineErrorType(outcome.message, {}) = "auth_error"

IsTransient(outcome) ==
  /\ outcome.kind = "failure"
  /\ Includes(outcome.message, "Failed to get Guest Token")

\* TwitterDL answers; downloadTweet returns; main() puts the id in a bucket and
\* saves the processed-set, or waits rateLimitWaitTime before a re-attempt, or
\* halts on authError
DlResult(outcome) ==
  /\ pc = "download"
  /\ dl.phase = "fetching"
  /\ LET tweetId == dl.tweetIds[dl.i]
         r == downloadTweet(ledger, downloads, tweetId, 0, outcome, now)
         b == BucketOf(r.result)
         seen == dl.authSeen \/ IsAuthFailure(outcome)
     IN /\ ledger' = r.ledger
        /\ errorFile' = IF r.ledger # ledger THEN FileOf(r.ledger) ELSE errorFile
        /\ downloads' = r.downloads
        /\ IF b = "wait"
             THEN /\ dl' = [dl EXCEPT !.phase = "waiting", !.authSeen = seen,
                                      !.retryCount = r.result.retryCount]
                  /\ UNCHANGED <<processed, processedFile, pc>>
           ELSE IF b = "halt"
             THEN /\ processed' = Mark(processed, "failed", tweetId, now)
                  /\ dl' = [dl EXCEPT !.phase = "halted", !.authSeen = seen,
                                      !.marked = [id |-> tweetId, bucket |-> "failed",
                                                  attempts |-> dl.attempts,
                                                  transient |-> IsTransient(outcome),
                                                  recorded |-> hasError(r.ledger, tweetId)]]
                  /\ UNCHANGED <<processedFile, pc>>
           ELSE /\ processed' = Mark(processed, b, tweetId, now)
                /\ processedFile' = saveProcessedTweets(processed')
                /\ dl' = [dl EXCEPT !.phase = "ready", !.i = @ + 1, !.authSeen = seen,
                                    !.marked = [id |-> tweetId, bucket |-> b,
                                                attempts |-> dl.attempts,
                                                transient |-> IsTransient(outcome),
                                                recorded |-> hasError(r.ledger, tweetId)]]
                /\ UNCHANGED pc
  /\ UNCHANGED <<mediaVars, limVars, batchMode, now, allDownloadIds, notFound, newlyAdded>>
  /\ UNCHANGED <<probe, calc>>

\* the wait is over: downloadTweet(tweetId, result.retryCount) is called
DlWaitOver ==
  /\ pc = "download"
  /\ dl.phase = "waiting"
  /\ dl' = [dl EXCEPT !.phase = "refetching", !.attempts = @ + 1,
                      !.afterAuth = @ \/ dl.authSeen]
  /\ UNCHANGED <<mediaVars, limVars, ledgerVars, now, processed, processedFile, downloads, pc,
                 allDownloadIds, notFound, newlyAdded>>

\* the re-attempt returns; main() puts the id in a bucket and saves
DlRetryResult(outcome) ==
  /\ pc = "download"
  /\ dl.phase = "refetching"
  /\ LET tweetId == dl.tweetIds[dl.i]
         r == downloadTweet(ledger, downloads, tweetId, dl.retryCount, outcome, now)
         b == RetryBucketOf(r.result)
     IN /\ ledger' = r.ledger
        /\ errorFile' = IF r.ledger # ledger THEN FileOf(r.ledger) ELSE errorFile
        /\ downloads' = r.downloads
        /\ processed' = Mark(processed, b, tweetId, now)
        /\ processedFile' = saveProcessedTweets(processed')
        /\ dl' = [dl EXCEPT !.phase = "ready", !.i = @ + 1,
                            !.authSeen = @ \/ IsAuthFailure(outcome),
                            !.marked = [id |-> tweetId, bucket |-> b,
                                        attempts |-> dl.attempts,
                                        transient |-> IsTransient(outcome),
                                        recorded |-> hasError(r.ledger, tweetId)]]
  /\ UNCHANGED <<mediaVars, limVars, batchMode, now, pc, allDownloadIds, notFound, newlyAdded>>
  /\ UNCHANGED <<probe, calc>>

\* the loop is over (the summary is printed) or main() has returned on
\* authError: the script ends
DlEnd ==
  /\ pc = "download"
  /\ IF dl.phase = "ready" THEN dl.i > Len(dl.tweetIds) ELSE dl.phase = "halted"
  /\ pc' = "idle"
  /\ dl' = DlIdle
  /\ UNCHANGED <<mediaVars, limVars, ledgerVars, now, processed, processedFile, downloads,
                 allDownloadIds, notFound, newlyAdded>>

\* the reconciliation script loads the stores, lists the directories, enables
\* batch mode and runs pass 1 (validateSuccessfulTweets over Object.keys(successful))
Recon1 ==
  /\ pc = "idle"
  /\ pc' = "reconcile"
  /\ batchMode' = TRUE
  /\ allDownloadIds' = getDownloadIds(downloads)
  /\ now' = LaterThan(now)
  /\ LET p0 == loadProcessedTweets(processedFile)
         st == validateSuccessfulTweets(KeysOf(p0.successful), 1,
                 [processed |-> p0, downloads |-> downloads,
                  ledger |-> loadErrors(errorFile), found |-> <<>>], now')
     IN /\ processed' = st.processed
        /\ downloads' = st.downloads
        /\ ledger' = st.ledger
        /\ notFound' = st.found
  /\ UNCHANGED <<mediaVars, limVars, errorFile, processedFile, dl, newlyAdded>>
  /\ UNCHANGED <<probe, calc>>

\* pass 2 (validateNewTweets over the directory listing), then both documents
\* are saved and the results are printed
Recon2 ==
  /\ pc = "reconcile"
  /\ pc' = "reconciled"
  /\ LET st == validateNewTweets(allDownloadIds, 1,
                 [processed |-> processed, downloads |-> downloads,
                  ledger |-> ledger, found |-> <<>>], now)
     IN /\ processed' = st.processed
        /\ ledger' = st.ledger
        /\ newlyAdded' = st.found
        /\ errorFile' = FileOf(st.ledger)
        /\ processedFile' = FileOf(st.processed)
  /\ UNCHANGED <<mediaVars, limVars, batchMode, now, downloads, dl, allDownloadIds, notFound>>
  /\ UNCHANGED <<probe, calc>>

\* the reconciliation script ends
ReconEnd ==
  /\ pc = "reconciled"
  /\ pc' = "idle"
  /\ allDownloadIds' = <<>>
  /\ notFound' = <<>>
  /\ newlyAdded' = <<>>
  /\ UNCHANGED <<mediaVars, limVars, ledgerVars, now, processed, processedFile, downloads, dl>>

NextArchive ==
  \/ \E w \in Worklists : DlStart(w)
  \/ DlFetch
  \/ \E o \in FetchOutcomes : DlResult(o)
  \/ DlWaitOver
  \/ \E o \in FetchOutcomes : DlRetryResult(o)
  \/ DlEnd
  \/ Recon1
  \/ Recon2
  \/ ReconEnd
  \/ \E id \in TweetIds : ExternalRemove(id)

SpecArchive == InitArchive /\ [][NextArchive]_vars

\* the download script under the scheduling JavaScript gives it: the loop goes
\* on to its next statement, every TwitterDL call returns or throws, and the
\* timer of the wait fires
SpecArchiveFair ==
  /\ SpecArchive
  /\ WF_vars(DlFetch)
  /\ WF_vars(\E o \in FetchOutcomes : DlResult(o))
  /\ WF_vars(DlWaitOver)
  /\ WF_vars(\E o \in FetchOutcomes : DlRetryResult(o))
  /\ WF_vars(DlEnd)

\* an id is in at most one of the three buckets of p
Disjoint(p) ==
  /\ DOMAIN p.successful \cap DOMAIN p.failed = {}
  /\ DOMAIN p.successful \cap DOMAIN p.noMedia = {}
  /\ DOMAIN p.failed \cap DOMAIN p.noMedia = {}

\* C3: after any sequence of download runs and reconciliation runs no id is in
\* more than one of successful, failed and noMedia.
C3_BucketsDisjoint == Disjoint(processed)

\* C4: pass 2 inserts an id into successful only when its directory holds a
\* recognized metadata document and the id is in none of the three buckets;
\* an id already in failed or noMedia is left where it is (pass 2 removes
\* nothing, so an inserted id found in failed or noMedia afterwards was there
\* when it was inserted).
C4_InsertsOnlyUnprocessed ==
  pc = "reconciled" =>
    \A k \in 1..Len(newlyAdded) :
      /\ existsTweetJson(downloads, newlyAdded[k])
      /\ ~InBucket(processed.failed, newlyAdded[k])
      /\ ~InBucket(processed.noMedia, newlyAdded[k])

\* C7: once a fetch of a download run has failed with an authentication-class
\* failure the run halts: no further fetch is started in that run, and the
\* processed-set with that item's outcome is on disk when the run has halted.
C7_HaltsOnAuthFailure ==
  /\ ~dl.afterAuth
  /\ dl.phase = "halted" => processedFile = FileOf(processed)

\* C8: an item whose fetch keeps failing with the transient (rate-limit-like)
\* failure is re-attempted, after a wait each time, maxRateLimitRetries times
\* before it is marked failed.
C8_RetriesUpToMax ==
  (dl.marked.bucket = "failed" /\ dl.marked.transient)
    => dl.marked.attempts = 1 + maxRateLimitRetries

\* C10: whenever a download run puts an id into failed, the ledger holds an
\* error record for that id at that moment.
C10_FailedIsRecorded ==
  dl.marked.bucket = "failed" => dl.marked.recorded

\* the id is in one of the three buckets of p
InAnyBucket(p, tweetId) ==
  \/ InBucket(p.successful, tweetId)
  \/ InBucket(p.failed, tweetId)
  \/ InBucket(p.noMedia, tweetId)

\* C19: a download run calls the metadata fetch for no id that is in
\* successful, failed or noMedia in the processed-set it loaded, and that id's
\* buckets and timestamps stay as loaded, in memory and on disk.
C19_ProcessedIdsAreLeftAlone ==
  pc = "download" =>
    \A tweetId \in TweetIds :
      InAnyBucket(dl.loaded, tweetId) =>
        /\ dl.phase \in {"fetching", "refetching"} => dl.tweetIds[dl.i] # tweetId
        /\ \A b \in {"successful", "failed", "noMedia"} :
             /\ InBucket(processed[b], tweetId) = InBucket(dl.loaded[b], tweetId)
             /\ InBucket(processed[b], tweetId) => processed[b][tweetId] = dl.loaded[b][tweetId]
             /\ InBucket(loadProcessedTweets(processedFile)[b], tweetId)
                  = InBucket(dl.loaded[b], tweetId)

\* a run that loaded an id in failed and another in noMedia or successful has
\* put a further id in a bucket and saved
C19_Witness ==
  /\ pc = "download"
  /\ dl.i > 1
  /\ \E tweetId \in TweetIds : InBucket(dl.loaded.failed, tweetId)
  /\ processed # dl.loaded

(***************************************************************************)
(* SpecMedia: one media-check run over an archive root                       *)
(***************************************************************************)
MediaIds == {"1001", "1002", "1003"}

\* what a directory of the archive root can hold when the run starts
DirKinds ==
  {"nojson", "corrupt", "nomedia", "odd", "photo", "heavy", "present", "half", "both"}

DirOf(tweetId, kind) ==
  CASE kind = "nojson"  -> EmptyMap
    [] kind = "corrupt" -> Put(EmptyMap, "tweet-data.json", DocCorrupt)
    [] kind = "nomedia" -> Put(EmptyMap, IdJsonName(tweetId), DocNoMedia)
    [] kind = "odd"     -> Put(EmptyMap, "tweet-data.json", DocOdd)
    [] kind = "photo"   -> Put(EmptyMap, "tweet-data.json", DocPhoto)
    [] kind = "heavy"   -> Put(EmptyMap, IdJsonName(tweetId), DocHeavy)
    [] kind = "present" -> Put(Put(EmptyMap, "tweet-data.json", DocPhoto), "p1.jpg", "complete")
    [] kind = "both"    -> Put(Put(EmptyMap, "tweet-data.json", DocPhoto),
                               IdJsonName(tweetId), DocCorrupt)
    [] kind = "half"    -> Put(Put(Put(EmptyMap, "tweet-data.json", DocHeavy),
                                   "p1.jpg", "complete"), "c1.jpg", "complete")

\* the directories considered for each id: every kind for the id that can start
\* with a ledger record, the kinds with transfers for those that share its chunks
KindsOf(tweetId) ==
  CASE tweetId = "1001" -> DirKinds
    [] tweetId = "1002" -> {"nojson", "photo", "heavy"}
    [] tweetId = "1003" -> {"photo"}

\* the ledger after addError was called n times for tweetId
RECURSIVE Recorded(_, _, _)
Recorded(l, tweetId, n) ==
  IF n = 0 THEN l ELSE Recorded(addError(l, tweetId, "media_404", 0), tweetId, n - 1)

\* the most prior failures an id starts a run with
MaxPrior == 3

\* the prior failures considered for each id
PriorOf(tweetId) ==
  CASE tweetId = "1001" -> 0..MaxPrior
    [] tweetId = "1002" -> {0, 2}
    [] tweetId = "1003" -> {0}

InitMedia ==
  /\ limiter = ConcurrencyLimiter(MAX_CONCURRENT_DOWNLOADS)
  /\ task = EmptyMap
  /\ \E n \in PriorOf("1001") : \E m \in PriorOf("1002") :
       errorFile = FileOf(Recorded(Recorded(EmptyLedger, "1001", n), "1002", m))
  /\ ledger = loadErrors(errorFile)
  /\ batchMode = FALSE
  /\ now = 0
  /\ processed = EmptyProcessed
  /\ processedFile = FileMissing
  /\ \E ids \in SUBSET MediaIds : \E kinds \in [ids -> DirKinds] :
       /\ \A id \in ids : kinds[id] \in KindsOf(id)
       /\ downloads = [id \in ids |-> DirOf(id, kinds[id])]
  /\ pc = "idle"
  /\ dl = DlIdle
  /\ allDownloadIds = <<>>
  /\ notFound = <<>>
  /\ newlyAdded = <<>>
  /\ mc = McIdle
  /\ pass = EmptyMap
  /\ probe = NoProbe
  /\ calc = NoCalc

\* const getTweetIds(): the directories of the archive root, in listing order
getTweetIds(dirs) == KeysOf(dirs)

\* one iteration of processBatch up to its await: the chunk's processTweetDir
\* calls run one after the other, each to its first await
StartChunk(tweetIds, i) ==
  MapChunk([lim |-> limiter, task |-> EmptyMap, ledger |-> ledger, downloads |-> downloads,
            pass |-> EmptyMap, obs |-> EmptyMap],
           Slice(tweetIds, i, BATCH_SIZE), 1, now)

\* main(): setBatchMode(true), getTweetIds(), and with no directory return;
\* otherwise processBatch starts with the first chunk
MediaStart ==
  /\ mc.phase = "idle"
  /\ batchMode' = TRUE
  /\ \E tweetIds \in {getTweetIds(downloads)} : \E S \in {StartChunk(tweetIds, 1)} :
        IF Len(tweetIds) = 0
          THEN /\ mc' = [mc EXCEPT !.phase = "done"]
               /\ UNCHANGED <<limiter, task, ledger, downloads, pass>>
          ELSE /\ mc' = [mc EXCEPT !.phase = "chunk", !.tweetIds = tweetIds, !.i = 1,
                                   !.obs = S.obs]
               /\ limiter' = S.lim
               /\ task' = S.task
               /\ ledger' = S.ledger
               /\ downloads' = S.downloads
               /\ pass' = S.pass
  /\ UNCHANGED <<errorFile, now, processed, processedFile, pc, dl, allDownloadIds,
                 notFound, newlyAdded>>
  /\ UNCHANGED <<probe, calc>>

\* a parked run() continues: this.running++ and downloadFile starts
MResume(t) ==
  /\ mc.phase = "chunk"
  /\ task[t] = "released"
  /\ limiter' = RunResume(LimState, t).lim
  /\ task' = RunResume(LimState, t).task
  /\ downloads' = StartTransfer(downloads, t)
  /\ UNCHANGED <<ledger, batchMode, errorFile, now, processed, processedFile, pc, dl,
                 allDownloadIds, notFound, newlyAdded, mediaVars>>
  /\ UNCHANGED <<probe, calc>>

\* a transfer settles: the finally block of run(), then the handler of the
\* transfer (.then or .catch)
MSettle(t) ==
  /\ mc.phase = "chunk"
  /\ task[t] = "active"
  /\ \E o \in TransferOutcomes :
       LET f == RunFinally(LimState, t, o.ok)
           S == [lim |-> f.lim, task |-> f.task, ledger |-> ledger,
                 downloads |-> downloads, pass |-> pass]
           S1 == IF o.ok THEN OnSuccess(S, t) ELSE OnFailure(S, t, o.message, now)
       IN /\ limiter' = S1.lim
          /\ task' = S1.task
          /\ ledger' = S1.ledger
          /\ downloads' = S1.downloads
          /\ pass' = S1.pass
  /\ UNCHANGED <<batchMode, errorFile, now, processed, processedFile, pc, dl,
                 allDownloadIds, notFound, newlyAdded, mc>>
  /\ UNCHANGED <<probe, calc>>

\* AllSettled that waits for the first transfer only
AllSettled_First(tweetId) ==
  \E f \in pass[tweetId].tasks : task[<<tweetId, f>>] \in {"resolved", "rejected"}

\* the transfers a pass has submitted have all settled
AllSettled(tweetId) ==
  \A f \in pass[tweetId].tasks : task[<<tweetId, f>>] \in {"resolved", "rejected"}

\* await Promise.all(downloadTasks) is over: the pass returns its counters
PassReturn(tweetId) ==
  /\ mc.phase = "chunk"
  /\ Has(pass, tweetId)
  /\ pass[tweetId].state = "awaiting"
  /\ AllSettled(tweetId)
  /\ pass' = [pass EXCEPT ![tweetId] = Completed(@)]
  /\ UNCHANGED <<limVars, ledgerVars, now, archVars, mc>>

\* batchResults, in the order of the chunk
BatchResults(batch) ==
  [k \in 1..Len(batch) |-> [tweetId |-> batch[k], result |-> pass[batch[k]].result]]

\* await Promise.all(batch.map(processor)) is over: results.push(...batchResults),
\* then the next chunk; after the last one main() calls saveErrors()
NextChunk ==
  /\ mc.phase = "chunk"
  /\ \A tweetId \in DOMAIN pass : pass[tweetId].state = "returned"
  /\ LET batch == Slice(mc.tweetIds, mc.i, BATCH_SIZE)
         results == mc.results \o BatchResults(batch)
         i == mc.i + BATCH_SIZE
     IN \E S \in {StartChunk(mc.tweetIds, i)} :
        IF i <= Len(mc.tweetIds)
          THEN /\ mc' = [mc EXCEPT !.i = i, !.results = results, !.obs = S.obs]
               /\ limiter' = S.lim
               /\ task' = S.task
               /\ ledger' = S.ledger
               /\ downloads' = S.downloads
               /\ pass' = S.pass
               /\ UNCHANGED errorFile
          ELSE /\ mc' = [mc EXCEPT !.phase = "done", !.i = i, !.results = results]
               /\ errorFile' = FileOf(ledger)
               /\ UNCHANGED <<limiter, task, ledger, downloads, pass>>
  /\ UNCHANGED <<batchMode, now, processed, processedFile, pc, dl, allDownloadIds,
                 notFound, newlyAdded>>
  /\ UNCHANGED <<probe, calc>>

NextMedia ==
  \/ MediaStart
  \/ \E t \in DOMAIN task : MResume(t)
  \/ \E t \in DOMAIN task : MSettle(t)
  \/ \E tweetId \in MediaIds : PassReturn(tweetId)
  \/ NextChunk

SpecMedia == InitMedia /\ [][NextMedia]_vars

\* transfers in flight: downloadFile was called and has not settled
InFlight == Cardinality(Active)

\* C2: during a media-check run the number of downloadFile transfers in
\* flight never exceeds MAX_CONCURRENT_DOWNLOADS, whatever the chunk holds and
\* in whatever order the transfers settle.
C2_TransfersWithinCeiling == InFlight <= MAX_CONCURRENT_DOWNLOADS

\* the ceiling is reached by transfers of two items of one chunk while another
\* transfer is parked and an earlier one has settled
C2_Witness ==
  /\ InFlight = MAX_CONCURRENT_DOWNLOADS
  /\ \E t \in Active : \E u \in Active : t[1] # u[1]
  /\ \E t \in DOMAIN task : task[t] = "waiting"
  /\ \E t \in DOMAIN task : task[t] \in {"resolved", "rejected"}

\* C6: processTweetDir for an id whose record has retry_count >= 3 returns
\* skipped / max_retry_exceeded, submits nothing to the limiter and leaves the
\* ledger as it was; for an id whose record has retry_count 1 or 2 it does what
\* it does for an id with no record.
C6_RetryGate ==
  \A tweetId \in DOMAIN mc.obs :
    LET o == mc.obs[tweetId]
    IN /\ (o.hadRecord /\ o.retryCount >= 3) =>
            /\ pass[tweetId].state = "returned"
            /\ pass[tweetId].result.status = "skipped"
            /\ pass[tweetId].result.reason = "max_retry_exceeded"
            /\ pass[tweetId].tasks = {}
            /\ o.limiterKept
            /\ o.ledgerKept
       /\ (o.hadRecord /\ o.retryCount \in {1, 2}) => o.asFresh

\* one chunk holds an id skipped at three failures and an id with two failures
\* whose transfers were submitted
C6_Witness ==
  /\ Has(mc.obs, "1001") /\ Has(mc.obs, "1002")
  /\ mc.obs["1001"].hadRecord /\ mc.obs["1001"].retryCount >= 3
  /\ pass["1001"].result.reason = "max_retry_exceeded"
  /\ mc.obs["1002"].hadRecord /\ mc.obs["1002"].retryCount = 2
  /\ pass["1002"].tasks # {}

\* C9: when a pass over an item has ended and one of its transfers failed
\* during the pass, the ledger holds a record for the id.
C9_FailureIsOnRecord ==
  \A tweetId \in DOMAIN pass :
    (pass[tweetId].state = "returned" /\ pass[tweetId].result.errors > 0)
      => hasError(ledger, tweetId)

\* C11: a reconciliation run that follows a reconciliation run, with the
\* archive root untouched in between, leaves the processed-set, the ledger
\* records and the ledger statistics as the first run left them and reports no
\* not-found and no newly-added id. Stated where the first run has just saved:
\* the second run is the script applied to what is then on disk, at a later time.
C11_ReconcileTwice ==
  pc = "reconciled" =>
    LET r == Reconcile(processedFile, errorFile, downloads, now + 1)
    IN /\ r.processed = processed
       /\ r.ledger.errors = ledger.errors
       /\ r.ledger.statistics = ledger.statistics
       /\ r.downloads = downloads
       /\ r.notFound = <<>>
       /\ r.newlyAdded = <<>>

\* the first run removed an id and added another one
C11_Witness ==
  /\ pc = "reconciled"
  /\ notFound # <<>>
  /\ newlyAdded # <<>>

\* the ids of a list
RangeOf(seq) == {seq[k] : k \in 1..Len(seq)}

\* pass 1, as a step from the documents on disk
C12_Pass1 ==
  (pc = "idle" /\ pc' = "reconcile") =>
    LET before == loadProcessedTweets(processedFile).successful
    IN \A tweetId \in DOMAIN before :
         IF existsTweetJson(downloads, tweetId)
           THEN /\ InBucket(processed'.successful, tweetId)
                /\ processed'.successful[tweetId] = before[tweetId]
           ELSE /\ ~InBucket(processed'.successful, tweetId)
                /\ ~Has(downloads', tweetId)
                /\ tweetId \in RangeOf(notFound')

\* pass 2 and the save: what pass 1 established is kept, and it is what is saved
C12_Pass2 ==
  (pc = "reconcile" /\ pc' = "reconciled") =>
    /\ notFound' = notFound
    /\ downloads' = downloads
    /\ processedFile' = FileOf(processed')
    /\ \A tweetId \in DOMAIN processed.successful :
         /\ InBucket(processed'.successful, tweetId)
         /\ processed'.successful[tweetId] = processed.successful[tweetId]
    /\ \A tweetId \in RangeOf(notFound) : ~InBucket(processed'.successful, tweetId)

C13_RemovedIdHasNoRecord ==
  pc = "reconcile" => \A tweetId \in RangeOf(notFound) : ~hasError(ledger, tweetId)

\* C20: processTweetDir submits no transfer for a destination file that is in
\* the item's directory when it is called; when all the destination files of
\* an item are there it submits nothing and leaves the ledger and the directory
\* as they were.
C20_ExistingFilesAreSkipped ==
  \A tweetId \in DOMAIN mc.obs :
    LET o == mc.obs[tweetId]
    IN /\ pass[tweetId].tasks \cap o.present = {}
       /\ (o.listsMedia /\ o.dests \subseteq o.present) =>
            /\ pass[tweetId].tasks = {}
            /\ o.limiterKept
            /\ o.ledgerKept
            /\ o.dirKept

\* one chunk holds an item with a ledger record whose only destination file is
\* there and an item whose transfers were submitted
C20_Witness ==
  /\ Has(mc.obs, "1001") /\ Has(mc.obs, "1002")
  /\ mc.obs["1001"].hadRecord
  /\ mc.obs["1001"].listsMedia
  /\ mc.obs["1001"].dests # {}
  /\ mc.obs["1001"].dests \subseteq mc.obs["1001"].present
  /\ pass["1001"].result.status = "completed"
  /\ pass["1002"].tasks # {}

\* the transfers of a pass that failed
FailedOf(tweetId) == {f \in pass[tweetId].tasks : task[<<tweetId, f>>] = "rejected"}

NoReadableJson(o) == ~o.hasJson \/ o.unparsable

\* what C22 says of a pass that found no readable metadata document
RecordsJsonError(tweetId) ==
  /\ pass[tweetId].result.status = "error"
  /\ pass[tweetId].tasks = {}
  /\ mc.obs[tweetId].limiterKept
  /\ mc.obs[tweetId].recordedAfter = mc.obs[tweetId].retryCount + 1

\* C22 as stated: processTweetDir for an id whose directory has neither
\* document, or a document that does not parse, records an error (retry_count
\* one higher), returns 'error' and submits nothing; with both documents
\* there, tweet-data.json is the one read.
C22_UnreadableIsRecorded ==
  \A tweetId \in DOMAIN mc.obs :
    /\ NoReadableJson(mc.obs[tweetId]) => RecordsJsonError(tweetId)
    /\ mc.obs[tweetId].bothJson => mc.obs[tweetId].asGenericOnly

\* C22, amended: the same, for an id that the retry test lets through (no
\* record, or a record with retry_count below 3).
C22_UnreadableIsRecordedBelowThree ==
  \A tweetId \in DOMAIN mc.obs :
    /\ (NoReadableJson(mc.obs[tweetId])
        /\ ~(mc.obs[tweetId].hadRecord /\ mc.obs[tweetId].retryCount >= 3))
         => RecordsJsonError(tweetId)
    /\ mc.obs[tweetId].bothJson => mc.obs[tweetId].asGenericOnly

\* one chunk holds an item with two failures on record and no document, now
\* recorded a third time, and an item with no document at all
C22_Witness ==
  /\ Has(mc.obs, "1001") /\ Has(mc.obs, "1002")
  /\ mc.obs["1002"].retryCount = 2
  /\ ~mc.obs["1002"].hasJson
  /\ mc.obs["1002"].recordedAfter = 3
  /\ pass["1002"].result.reason = "json_not_found"
  /\ mc.obs["1001"].unparsable
  /\ pass["1001"].result.reason = "json_parse_error"

\* the id's retry_count in the ledger as it is now (0 with no record)
RetryCountNow(tweetId) ==
  IF hasError(ledger, tweetId) THEN getError(ledger, tweetId).retry_count ELSE 0

\* C29: a single processTweetDir pass over an item raises the id's
\* retry_count by at most 1, however many of the item's transfers fail, so
\* that three failed passes are needed before the id is skipped.
C29_OnePassOneRetry ==
  \A tweetId \in DOMAIN mc.obs :
    RetryCountNow(tweetId) <= mc.obs[tweetId].retryCount + 1

\* C30: a download run never calls the metadata fetch for an id that has an
\* error record in the ledger when the run starts, whatever the record's kind
\* and retry_count, and puts such an id in no bucket.
C30_RecordedIdsAreNotFetched ==
  pc = "download" =>
    \A tweetId \in dl.errorIds :
      /\ \A k \in 1..Len(dl.tweetIds) : dl.tweetIds[k] # tweetId
      /\ dl.phase \in {"fetching", "refetching"} => dl.tweetIds[dl.i] # tweetId
      /\ \A b \in {"successful", "failed", "noMedia"} :
           /\ InBucket(processed[b], tweetId) = InBucket(dl.loaded[b], tweetId)
           /\ InBucket(loadProcessedTweets(processedFile)[b], tweetId)
                = InBucket(dl.loaded[b], tweetId)

\* the worklist of a run held an id that is in no bucket and has a record
\* with retry_count 1, and the run has put another id in a bucket
C30_Witness ==
  /\ pc = "download"
  /\ dl.i > 1
  /\ dl.marked.id # "none"
  /\ \E tweetId \in dl.errorIds :
       /\ ~InAnyBucket(dl.loaded, tweetId)
       /\ ~InAnyBucket(processed, tweetId)
       /\ hasError(ledger, tweetId)
       /\ getError(ledger, tweetId).retry_count = 1

\* C28: clearAllErrors, from any ledger state, leaves the ledger with no
\* records, total_errors 0 and empty by_type and by_date in one step;
\* afterwards hasError is false for every id and the next addError for any id
\* gives retry_count 1.
C28_ClearAllResets ==
  probe.phase = "cleared" =>
    /\ ledger.errors = EmptyMap
    /\ ledger.statistics.total_errors = 0
    /\ ledger.statistics.by_type = EmptyMap
    /\ ledger.statistics.by_date = EmptyMap
    /\ \A tweetId \in TweetIds :
         /\ ~hasError(ledger, tweetId)
         /\ \A k \in LedgerKinds :
              getError(addError(ledger, tweetId, k, now), tweetId).retry_count = 1

\* clearAllErrors was called on a ledger that held two records or more
C28_Witness ==
  /\ probe.phase = "cleared"
  /\ probe.before.total_errors >= 2
  /\ DOMAIN probe.before.by_type # {}

\* a mutating call of the ledger that writes when batch mode is off
MutatingCall ==
  \/ \E id \in TweetIds, k \in BatchKinds : AddError(id, k)
  \/ \E id \in TweetIds : RemoveError(id) /\ hasError(ledger, id)
  \/ ClearAllErrors

LegacyFiles ==
  {FileMissing, FileCorrupt}
    \cup {FileOf([EmptyProcessed EXCEPT !.successful = [id \in ids |-> 0]]) :
            ids \in SUBSET MediaIds}

\* what the archive root can hold: for each id no directory, a directory
\* with <id>.json, or a directory without a metadata document
LegacyRoots ==
  {[id \in with \cup without |-> IF id \in with THEN LegacyDir(id) ELSE EmptyMap] :
     with \in SUBSET MediaIds, without \in SUBSET {"1001", "1002"}}

InitLegacy ==
  /\ limiter = ConcurrencyLimiter(MaxConcurrency)
  /\ task = [t \in Tasks |-> "idle"]
  /\ errorFile = FileMissing
  /\ ledger = loadErrors(errorFile)
  /\ batchMode = FALSE
  /\ now = 0
  /\ processed = EmptyProcessed
  /\ processedFile \in LegacyFiles
  /\ downloads \in LegacyRoots
  /\ pc = "idle"
  /\ dl = DlIdle
  /\ allDownloadIds = <<>>
  /\ notFound = <<>>
  /\ newlyAdded = <<>>
  /\ mc = McIdle
  /\ pass = EmptyMap
  /\ probe = NoProbe
  /\ calc = NoCalc

\* the first loop of the script from position i on: an id of successful
\* without a metadata document loses its directory and its entry
RECURSIVE LegacyPass1(_, _, _)
LegacyPass1(tweetIds, i, st) ==
  IF i > Len(tweetIds) THEN st
  ELSE LET tweetId == tweetIds[i]
           st2 == IF ~existsTweetJson(st.downloads, tweetId)
                    THEN [processed |-> [st.processed EXCEPT !.successful = Del(@, tweetId)],
                          downloads |-> RemoveDir(st.downloads, tweetId),
                          found     |-> Append(st.found, tweetId)]
                    ELSE st
       IN LegacyPass1(tweetIds, i + 1, st2)

\* the second loop of the script from position i on
RECURSIVE LegacyPass2(_, _, _, _)
LegacyPass2(tweetIds, i, st, ts) ==
  IF i > Len(tweetIds) THEN st
  ELSE LET tweetId == tweetIds[i]
           st2 == IF existsTweetJson(st.downloads, tweetId)
                     /\ ~InBucket(st.processed.successful, tweetId)
                    THEN [st EXCEPT !.processed = Mark(@, "successful", tweetId, ts),
                                    !.found = Append(@, tweetId)]
                    ELSE st
       IN LegacyPass2(tweetIds, i + 1, st2, ts)

\* the module loads: fs.readJSONSync(processedPath) outside any try block
\* throws when the document is missing or cannot be parsed and the process
\* ends; otherwise the directories are listed
LegacyLoad ==
  /\ pc = "idle"
  /\ IF processedFile.status = "ok"
       THEN /\ pc' = "legacy"
            /\ processed' = processedFile.content
            /\ allDownloadIds' = KeysOf(downloads)
       ELSE /\ pc' = "crashed"
            /\ UNCHANGED <<processed, allDownloadIds>>
  /\ now' = LaterThan(now)
  /\ UNCHANGED <<mediaVars, limVars, ledgerVars, processedFile, downloads, dl,
                 notFound, newlyAdded>>

\* the first loop over Object.keys(successful)
LegacyCheck ==
  /\ pc = "legacy"
  /\ pc' = "legacyChecked"
  /\ LET st == LegacyPass1(KeysOf(processed.successful), 1,
                 [processed |-> processed, downloads |-> downloads, found |-> <<>>])
     IN /\ processed' = st.processed
        /\ downloads' = st.downloads
        /\ notFound' = st.found
  /\ UNCHANGED <<mediaVars, limVars, ledgerVars, now, processedFile, dl, allDownloadIds,
                 newlyAdded>>

\* the second loop over allDownloadIds, then fs.writeJSONSync(processedPath, processed)
LegacyAddAndSave ==
  /\ pc = "legacyChecked"
  /\ pc' = "legacyDone"
  /\ LET st == LegacyPass2(allDownloadIds, 1,
                 [processed |-> processed, downloads |-> downloads, found |-> <<>>], now)
     IN /\ processed' = st.processed
        /\ newlyAdded' = st.found
        /\ processedFile' = FileOf(st.processed)
  /\ UNCHANGED <<mediaVars, limVars, ledgerVars, now, downloads, dl, allDownloadIds, notFound>>

NextLegacy ==
  \/ LegacyLoad
  \/ LegacyCheck
  \/ LegacyAddAndSave

SpecLegacy == InitLegacy /\ [][NextLegacy]_vars

\* C27: loading a missing or unreadable durable document never aborts the
\* process: the ledger starts with no records and zeroed statistics and the
\* processed-set starts with three empty buckets, in every script that loads
\* them.
C27_LoadNeverAborts ==
  /\ pc # "crashed"
  /\ (pc = "legacy" /\ loadProcessedTweets(processedFile) = EmptyProcessed)
       => processed = EmptyProcessed
  /\ ledger = loadErrors(errorFile)

(***************************************************************************)
(* Calls of single functions of the program, the rest of it at rest         *)
(***************************************************************************)
progVars == <<limVars, ledger, batchMode, errorFile, probe, now, archVars, mediaVars>>

ProgramAtRest ==
  /\ limiter = ConcurrencyLimiter(MaxConcurrency)
  /\ task = [t \in Tasks |-> "idle"]
  /\ errorFile = FileMissing
  /\ ledger = loadErrors(errorFile)
  /\ batchMode = FALSE
  /\ now = 0
  /\ ArchiveAtRest

(***************************************************************************)
(* SpecVariant: the video branch of processTweetDir on one media entry      *)
(***************************************************************************)
MaxVariants == 3

\* the bitrates of the variants; -1 stands for a variant without bitrate
Bitrates == {-1, 0, 480, 720, 1080}

\* the k-th variant listed has its own file name
VariantUrl(k) == Url(<<"vid", "v" \o ToString(k) \o ".mp4">>)

VariantLists ==
  UNION {{[k \in 1..n |-> Variant(b[k], VariantUrl(k))] : b \in [1..n -> Bitrates]} :
           n \in 1..MaxVariants}

InitVariant ==
  /\ ProgramAtRest
  /\ \E videos \in VariantLists : calc = [op |-> "videos", videos |-> videos, tasks |-> {}]

\* the loop body runs for one entry {type: 'video', videos} of an item whose
\* directory holds no media file
SelectVariant ==
  /\ calc.op = "videos"
  /\ LET S == [lim |-> ConcurrencyLimiter(MAX_CONCURRENT_DOWNLOADS), task |-> EmptyMap,
               ledger |-> EmptyLedger, downloads |-> Put(EmptyMap, "1001", EmptyMap),
               pass |-> Put(EmptyMap, "1001", NewPass), obs |-> EmptyMap]
     IN calc' = [calc EXCEPT !.op = "entry",
                             !.tasks = Entry(S, "1001", Video(calc.videos, NoUrl)).pass["1001"].tasks]
  /\ UNCHANGED progVars

NextVariant == SelectVariant

SpecVariant == InitVariant /\ [][NextVariant]_vars

\* the bitrate a variant counts with
CountsAs(v) == IF v.bitrate = -1 THEN 0 ELSE v.bitrate

\* C23: for a video entry with a non-empty variant list, the variant
\* submitted is the one with the highest bitrate (a missing bitrate counts as
\* 0), among variants of equal highest bitrate the one listed first, and
\* exactly one variant per video entry is submitted.
C23_HighestBitrateFirstListed ==
  calc.op = "entry" =>
    \E k \in 1..Len(calc.videos) :
      /\ \A j \in 1..Len(calc.videos) : CountsAs(calc.videos[j]) <= CountsAs(calc.videos[k])
      /\ \A j \in 1..(k - 1) : CountsAs(calc.videos[j]) < CountsAs(calc.videos[k])
      /\ calc.tasks = {getFilenameFromUrl(calc.videos[k].url)}

\* bitrates [480, 1080, 720]: the second variant is the one submitted
C23_Witness ==
  /\ calc.op = "entry"
  /\ [k \in 1..Len(calc.videos) |-> calc.videos[k].bitrate] = <<480, 1080, 720>>
  /\ calc.tasks = {"v2.mp4"}

(***************************************************************************)
(* SpecClassify: one call of determineErrorType(error, output)              *)
(***************************************************************************)
\* the rules of determineErrorType in the order of its if statements
Rules ==
  << [kind |-> "media_404", patterns |-> {"404", "Not Found"}],
     [kind |-> "media_403", patterns |-> {"403", "Forbidden"}],
     [kind |-> "rate_limit", patterns |-> {"429", "Too Many Requests", "Rate limit"}],
     [kind |-> "auth_error",
      patterns |-> {"Authentication failed", "Unauthorized", "Login failed"}],
     [kind |-> "network_error", patterns |-> {"ENOTFOUND", "ECONNREFUSED", "ETIMEDOUT"}],
     [kind |-> "json_parse_error", patterns |-> {"JSON", "parse"}],
     [kind |-> "media_download_failed", patterns |-> {"download", "Failed to get"}] >>

\* every substring determineErrorType looks for
Patterns == UNION {Rules[r].patterns : r \in DOMAIN Rules}

\* how many of them a message holds at most, and the auxiliary output
MaxProbes == 2
MaxOutputProbes == 1

Texts(n) == {text \in SUBSET Patterns : Cardinality(text) <= n}

InitClassify ==
  /\ ProgramAtRest
  /\ \E errorMessage \in Texts(MaxProbes), output \in Texts(MaxOutputProbes) :
       calc = [op |-> "error", errorMessage |-> errorMessage, output |-> output,
               errorType |-> "none"]

Classify ==
  /\ calc.op = "error"
  /\ calc' = [calc EXCEPT !.op = "classified",
                          !.errorType = determineErrorType(calc.errorMessage, calc.output)]
  /\ UNCHANGED progVars

NextClassify == Classify

SpecClassify == InitClassify /\ [][NextClassify]_vars

\* the rules with a pattern that occurs in error message or auxiliary output
Matching(errorMessage, output) ==
  {r \in DOMAIN Rules : Rules[r].patterns \cap (errorMessage \cup output) # {}}

\* C24: determineErrorType returns the kind of the first rule, in the fixed
\* order 404, 403, rate limit, authentication, network, json/parse,
\* download, whose pattern occurs in the error message concatenated with the
\* auxiliary output, and unknown_error when none occurs.
C24_FirstRuleWins ==
  calc.op = "classified" =>
    LET matching == Matching(calc.errorMessage, calc.output)
    IN IF matching = {}
         THEN calc.errorType = "unknown_error"
         ELSE \E r \in matching :
                /\ \A q \in matching : r <= q
                /\ calc.errorType = Rules[r].kind

\* a message with 429 and an auxiliary output with 404 give media_404
C24_Witness ==
  /\ calc.op = "classified"
  /\ calc.errorMessage = {"429"}
  /\ calc.output = {"404"}
  /\ calc.errorType = "media_404"

(***************************************************************************)
(* SpecChunks: one call of processBatch(items, processor, batchSize)        *)
(* (src/media-check-and-download.js 88-109, awaiting its processors, and    *)
(* src/unnamed/part_001 63-80, calling its processor on the whole chunk)    *)
(***************************************************************************)
MaxItems == 5
MaxBatch == 3

\* the items are numbered in input order
ItemsOf(n) == [k \in 1..n |-> k]

\* what the processor of the media-check run resolves to for an item
ResultOf(item) == [tweetId |-> item, status |-> "completed"]

\* a processor call that has not resolved yet
Pending == [tweetId |-> 0, status |-> "pending"]

\* the processors of the reconciliation script return the items of the chunk
\* they report, in the order of the chunk; here: the odd ones
Reports(item) == item % 2 = 1
ReportOf(batch) == SelectSeq(batch, Reports)

\* Promise.all that yields the values in the order the promises settle
PromiseAll_ByCompletion(slots, order) == [j \in 1..Len(order) |-> slots[order[j]]]

\* Promise.all(batch.map(processor)): the values by position in the chunk
PromiseAll(slots, order) == [k \in 1..Len(slots) |-> slots[k]]

\* processBatch of the reconciliation script from position i on
RECURSIVE processBatchSync(_, _, _, _)
processBatchSync(items, i, batchSize, acc) ==
  IF i > Len(items) THEN acc
  ELSE LET batch == Slice(items, i, batchSize)
       IN processBatchSync(items, i + batchSize, batchSize,
                           [results |-> acc.results \o ReportOf(batch),
                            chunks |-> Append(acc.chunks, batch)])

InitChunks ==
  /\ ProgramAtRest
  /\ \E n \in 0..MaxItems, batchSize \in 1..MaxBatch, awaits \in BOOLEAN :
       calc = [op |-> "loop", awaits |-> awaits, items |-> ItemsOf(n),
               batchSize |-> batchSize, i |-> 1, batch |-> <<>>, slots |-> <<>>,
               order |-> <<>>, results |-> <<>>, chunks |-> <<>>]

\* one iteration up to its await: items.slice and batch.map(processor)
ChunkStart ==
  /\ calc.op = "loop"
  /\ calc.awaits
  /\ calc.i <= Len(calc.items)
  /\ LET batch == Slice(calc.items, calc.i, calc.batchSize)
     IN calc' = [calc EXCEPT !.op = "awaiting", !.batch = batch,
                             !.slots = [k \in 1..Len(batch) |-> Pending],
                             !.order = <<>>,
                             !.chunks = Append(@, batch)]
  /\ UNCHANGED progVars

\* the processor call of position k of the chunk resolves
ItemDone(k) ==
  /\ calc.op = "awaiting"
  /\ k \in 1..Len(calc.batch)
  /\ calc.slots[k] = Pending
  /\ calc' = [calc EXCEPT !.slots[k] = ResultOf(calc.batch[k]),
                          !.order = Append(@, k)]
  /\ UNCHANGED progVars

\* Promise.all resolves: results.push(...batchResults), i += batchSize
ChunkEnd ==
  /\ calc.op = "awaiting"
  /\ \A k \in 1..Len(calc.batch) : calc.slots[k] # Pending
  /\ calc' = [calc EXCEPT !.op = "loop",
                          !.results = @ \o PromiseAll(calc.slots, calc.order),
                          !.i = @ + calc.batchSize]
  /\ UNCHANGED progVars

\* the loop is over: resolve(results)
Resolve ==
  /\ calc.op = "loop"
  /\ calc.awaits
  /\ calc.i > Len(calc.items)
  /\ calc' = [calc EXCEPT !.op = "resolved"]
  /\ UNCHANGED progVars

\* processBatch of the reconciliation script: the whole loop, no await in it
SyncBatch ==
  /\ calc.op = "loop"
  /\ ~calc.awaits
  /\ LET r == processBatchSync(calc.items, 1, calc.batchSize,
                               [results |-> <<>>, chunks |-> <<>>])
     IN calc' = [calc EXCEPT !.op = "resolved", !.results = r.results, !.chunks = r.chunks]
  /\ UNCHANGED progVars

NextChunks ==
  \/ ChunkStart
  \/ \E k \in 1..MaxBatch : ItemDone(k)
  \/ ChunkEnd
  \/ Resolve
  \/ SyncBatch

SpecChunks == InitChunks /\ [][NextChunks]_vars

\* ceil(n / b)
CeilDiv(n, b) == (n + b - 1) \div b

\* C25: processBatch over n items with batch size b forms exactly ceil(n/b)
\* contiguous chunks in input order, each of b items except a shorter last
\* one, and the returned results are the per-chunk results concatenated in
\* chunk order, each chunk's results in the order of its items, whatever
\* order the item processors complete in.
C25_ChunksInInputOrder ==
  calc.op = "resolved" =>
    LET n == Len(calc.items)
        b == calc.batchSize
    IN /\ Len(calc.chunks) = CeilDiv(n, b)
       /\ \A c \in 1..Len(calc.chunks) :
            /\ Len(calc.chunks[c]) = IF c < Len(calc.chunks) THEN b ELSE n - b * (c - 1)
            /\ \A k \in 1..Len(calc.chunks[c]) : calc.chunks[c][k] = calc.items[b * (c - 1) + k]
       /\ calc.results = IF calc.awaits THEN [j \in 1..n |-> ResultOf(calc.items[j])]
                         ELSE SelectSeq(calc.items, Reports)

\* five items in chunks of three (3, 2), the processors of the last chunk
\* having completed in reverse order
C25_Witness ==
  /\ calc.op = "resolved"
  /\ calc.awaits
  /\ Len(calc.items) = 5
  /\ calc.batchSize = 3
  /\ Len(calc.chunks) = 2
  /\ Len(calc.chunks[2]) = 2
  /\ calc.order = <<2, 1>>
  /\ Len(calc.results) = 5

\* C31: no item processor of chunk k+1 starts before every item processor
\* of chunk k, including all of its transfers, has completed; at each chunk
\* boundary the limiter has no active task and an empty queue.
C31_ChunksDoNotOverlap ==
  [][(mc.phase = "chunk" /\ mc'.i # mc.i) =>
       /\ \A tweetId \in DOMAIN pass : pass[tweetId].state = "returned"
       /\ \A t \in DOMAIN task : task[t] \in {"resolved", "rejected"}
       /\ limiter.running = 0
       /\ limiter.queue = <<>>]_vars

\* the second chunk has a transfer running after a first chunk that had
\* transfers of two items
C31_Witness ==
  /\ mc.phase = "chunk"
  /\ mc.i > 1
  /\ Len(mc.results) = BATCH_SIZE
  /\ \A k \in 1..Len(mc.results) :
       mc.results[k].result.errors + mc.results[k].result.successes >= 1
  /\ \E t \in DOMAIN task : task[t] = "active"

\* C32: a download run has at most one metadata fetch in flight and starts
\* the items of the filtered worklist strictly in worklist order: the fetch
\* (and any re-attempt) of an item has returned and its outcome is in the
\* processed-set before the next item's fetch starts.
C32_OneFetchInWorklistOrder ==
  [][(pc = "download" /\ pc' = "download") =>
       /\ dl'.i \in {dl.i, dl.i + 1}
       /\ dl'.tweetIds = dl.tweetIds
       /\ (dl'.phase = "fetching" /\ dl.phase # "fetching") =>
            /\ dl.phase = "ready"
            /\ \A k \in 1..(dl'.i - 1) : InAnyBucket(processed', dl.tweetIds[k])]_vars

\* the fetch of the second of two different items is in flight, the first one
\* being in a bucket
C32_Witness ==
  /\ pc = "download"
  /\ dl.phase = "fetching"
  /\ dl.i = 2
  /\ dl.tweetIds[1] # dl.tweetIds[2]
  /\ InAnyBucket(processed, dl.tweetIds[1])
  /\ ~InAnyBucket(processed, dl.tweetIds[2])

OperatorCommands == {"clear", "retry"}

\* the ids the operator names
OperatorIds == {"1001", "1002"}

InitOperator ==
  /\ limiter = ConcurrencyLimiter(MAX_CONCURRENT_DOWNLOADS)
  /\ task = EmptyMap
  /\ \E n \in PriorOf("1001") : \E m \in PriorOf("1002") :
       errorFile = FileOf(Recorded(Recorded(EmptyLedger, "1001", n), "1002", m))
  /\ ledger = loadErrors(errorFile)
  /\ batchMode = FALSE
  /\ now = 0
  /\ processed = EmptyProcessed
  /\ processedFile = FileMissing
  /\ \E kind \in {"photo", "heavy"} :
       downloads = [id \in OperatorIds |-> IF id = "1001" THEN DirOf(id, kind)
                                           ELSE DirOf(id, "photo")]
  /\ pc = "idle"
  /\ dl = DlIdle
  /\ allDownloadIds = <<>>
  /\ notFound = <<>>
  /\ newlyAdded = <<>>
  /\ mc = McIdle
  /\ pass = EmptyMap
  /\ probe = NoProbe
  /\ calc = NoCalc

\* node error-utils.js clear <tweetId> | retry <tweetId>: a new ErrorManager
\* loads the ledger; clearError(tweetId) and retryTweet(tweetId) both call
\* errorManager.clearError when hasError(tweetId), and only log otherwise
OperatorCommand(command, tweetId) ==
  /\ mc.phase = "idle"
  /\ calc = NoCalc
  /\ LET loaded == loadErrors(errorFile)
     IN /\ calc' = [op |-> command, id |-> tweetId, before |-> loaded,
                    fileBefore |-> errorFile]
        /\ IF hasError(loaded, tweetId)
             THEN /\ ledger' = clearError(loaded, tweetId)
                  /\ errorFile' = FileOf(ledger')
             ELSE /\ ledger' = loaded
                  /\ UNCHANGED errorFile
  /\ UNCHANGED <<limVars, batchMode, probe, now, archVars, mediaVars>>

NextOperator ==
  \/ \E command \in OperatorCommands, tweetId \in OperatorIds :
       OperatorCommand(command, tweetId)
  \/ NextMedia

SpecOperator == InitOperator /\ [][NextOperator]_vars

\* the statistics b with the counts of the record r taken off once
DecrementedOnce(b, r) ==
  [total_errors |-> b.total_errors - 1,
   by_type |-> [b.by_type EXCEPT ![r.type] = @ - 1],
   by_date |-> [b.by_date EXCEPT ![DateOf(r.timestamp)] = @ - 1]]

RECURSIVE SumOf(_)
SumOf(counts) ==
  IF DOMAIN counts = {} THEN 0
  ELSE LET k == CHOOSE x \in DOMAIN counts : TRUE
       IN counts[k] + SumOf(Del(counts, k))

\* C35: in every state reachable from an empty ledger by addError,
\* removeError and clearAllErrors calls, total_errors equals the sum of all
\* by_type counts and the sum of all by_date counts, and neither total_errors
\* nor any by_type or by_date count is negative.
C35_CountsAddUp ==
  /\ ledger.statistics.total_errors = SumOf(ledger.statistics.by_type)
  /\ ledger.statistics.total_errors = SumOf(ledger.statistics.by_date)
  /\ ledger.statistics.total_errors >= 0
  /\ \A k \in DOMAIN ledger.statistics.by_type : ledger.statistics.by_type[k] >= 0
  /\ \A d \in DOMAIN ledger.statistics.by_date : ledger.statistics.by_date[d] >= 0

\* a record was removed while others stay, after errors of two kinds on two
\* dates: a count is back at 0 and the total is above the number of records
C35_Witness ==
  /\ Cardinality(DOMAIN ledger.statistics.by_type) = 2
  /\ Cardinality(DOMAIN ledger.statistics.by_date) = 2
  /\ \E d \in DOMAIN ledger.statistics.by_date : ledger.statistics.by_date[d] = 0
  /\ ledger.statistics.total_errors > Cardinality(DOMAIN ledger.errors)
  /\ ledger.errors # EmptyMap

\* C36: when a reconciliation run has finished, every id in successful has
\* a recognized metadata document in its archive directory and no record in
\* the ledger, and every archive directory that holds a metadata document has
\* its id in successful; the documents written say the same.
C36_ReconciledWithArchive ==
  pc = "reconciled" =>
    /\ \A tweetId \in DOMAIN processed.successful :
         /\ existsTweetJson(downloads, tweetId)
         /\ ~hasError(ledger, tweetId)
    /\ \A tweetId \in DOMAIN downloads :
         existsTweetJson(downloads, tweetId) => InBucket(processed.successful, tweetId)
    /\ loadProcessedTweets(processedFile) = processed
    /\ loadErrors(errorFile) = ledger

\* a run has removed an id of successful that had no document, added a
\* directory that was not recorded, and left a not_found record
C36_Witness ==
  /\ pc = "reconciled"
  /\ Len(notFound) >= 1
  /\ Len(newlyAdded) >= 1
  /\ hasError(ledger, notFound[1])
  /\ InBucket(processed.failed, newlyAdded[1])


(***************************************************************************)
(* C37: a download run ends, and leaves every id of its worklist in a bucket *)
(***************************************************************************)
\* the step is the return of a TwitterDL call that threw
FetchThrew ==
  \E o \in FetchOutcomes : o.kind = "throw" /\ (DlResult(o) \/ DlRetryResult(o))

\* the loop has gone on to the item after this one
GoesOn ==
  /\ pc' = "download"
  /\ dl'.phase = "ready"
  /\ dl'.i = dl.i + 1
  /\ dl'.tweetIds = dl.tweetIds

\* C37: under SpecArchiveFair a download run that has started ends; when it
\* ends without having halted, every id of the filtered worklist is in at
\* least one of successful, failed and noMedia; and the step on which a fetch
\* throws puts the id in failed and the loop goes on to the next item.
C37_RunEndsWithEveryIdMarked ==
  /\ (pc = "download") ~> (pc = "idle")
  /\ [][(pc = "download" /\ pc' = "idle" /\ dl.phase # "halted") =>
          \A k \in 1..Len(dl.tweetIds) : InAnyBucket(processed, dl.tweetIds[k])]_vars
  /\ [][FetchThrew => (InBucket(processed'.failed, dl.tweetIds[dl.i]) /\ GoesOn)]_vars

\* the first fetch of a worklist of two threw: its id is in failed with a
\* timeout record, and the second id is being fetched
C37_Witness ==
  /\ pc = "download"
  /\ dl.phase = "fetching"
  /\ dl.i = 2
  /\ Len(dl.tweetIds) = 2
  /\ InBucket(processed.failed, dl.tweetIds[1])
  /\ hasError(ledger, dl.tweetIds[1])
  /\ getError(ledger, dl.tweetIds[1]).type = determineErrorType(MsgTimeout, {})
  /\ ~InAnyBucket(processed, dl.tweetIds[2])


(***************************************************************************)
(* C38: successful and noMedia follow the written document                  *)
(***************************************************************************)
DocumentBuckets == {"successful", "noMedia"}

\* the directory of tweetId holds tweet-data.json, the ledger has no record of
\* tweetId, and bucket is successful exactly when the document's media is a
\* non-empty array
FollowsDocument(dirs, l, tweetId, bucket) ==
  /\ Has(dirs, tweetId)
  /\ Has(dirs[tweetId], "tweet-data.json")
  /\ ~hasError(l, tweetId)
  /\ LET tweetData == dirs[tweetId]["tweet-data.json"]
     IN (bucket = "successful") <=> (IsArray(tweetData) /\ Len(tweetData.media) > 0)

\* C38: whenever the download run has just put an id in successful or noMedia,
\* tweet-data.json is in the id's directory, the ledger holds no record of the
\* id, and the bucket is successful exactly when the document's media list is
\* a non-empty array (noMedia otherwise); and no step of the run adds an id to
\* one of the two buckets in another way.
C38_DocumentBeforeBucket ==
  /\ [](pc = "download" /\ dl.marked.bucket \in DocumentBuckets =>
          /\ InBucket(processed[dl.marked.bucket], dl.marked.id)
          /\ FollowsDocument(downloads, ledger, dl.marked.id, dl.marked.bucket))
  /\ [][(pc = "download" /\ pc' = "download") =>
          \A bucket \in DocumentBuckets : \A tweetId \in TweetIds :
            (InBucket(processed'[bucket], tweetId) /\ ~InBucket(processed[bucket], tweetId))
              => /\ dl'.marked.id = tweetId
                 /\ dl'.marked.bucket = bucket
                 /\ FollowsDocument(downloads', ledger', tweetId, bucket)]_vars

\* an id listed twice failed at its first item, which left a ledger record,
\* and was fetched with media at its second: it is in successful, the document
\* is written and the record is gone
C38_Witness ==
  /\ pc = "download"
  /\ dl.i = 3
  /\ dl.tweetIds[1] = dl.tweetIds[2]
  /\ dl.marked.bucket = "successful"
  /\ InBucket(processed.failed, dl.marked.id)
  /\ InBucket(processed.successful, dl.marked.id)
  /\ ~hasError(ledger, dl.marked.id)
  /\ ledger.statistics.total_errors >= 1
  /\ downloads[dl.marked.id]["tweet-data.json"] = DocPhoto


(***************************************************************************)
(* C39: the running counter counts the tasks in progress                    *)
(***************************************************************************)
\* the run() calls made so far
Submitted == {t \in Tasks : task[t] # "idle"}

\* the run() calls whose resolve callback is parked in the queue
Parked == {limiter.queue[k] : k \in 1..Len(limiter.queue)}

\* C39: running is never negative and is the number of tasks whose fn() has
\* been called and has not settled; the queue holds exactly the calls that
\* wait, each once; and when every submitted task has finished, running is 0
\* and the queue is empty.
C39_RunningCountsActiveTasks ==
  /\ limiter.running >= 0
  /\ limiter.running = Cardinality(Active)
  /\ Parked = {t \in Tasks : task[t] = "waiting"}
  /\ Cardinality(Parked) = Len(limiter.queue)
  /\ Submitted \subseteq Finished => (limiter.running = 0 /\ limiter.queue = <<>>)

\* every task was submitted, more of them than the ceiling, and all have
\* finished, one at least by rejecting
C39_Witness ==
  /\ Submitted = Tasks
  /\ Finished = Tasks
  /\ MaxTasks > MaxConcurrency
  /\ \E t \in Tasks : task[t] = "rejected"
  /\ \E t \in Tasks : task[t] = "resolved"
  /\ limiter.running = 0

====
